---- MODULE Spec2Model ----
(***************************************************************************)
(* Order-status bot: the polling pipeline (build_changes_actions_for_user  *)
(* and watchdog_job of bot.py), the snapshot store of db.py, the           *)
(* fingerprint cache, the chat channel, and the interactive forced resync  *)
(* (sync_orders_context) and authorization flow that write the same store  *)
(* and cache between the awaits of a polling pass.                         *)
(***************************************************************************)
EXTENDS Integers, Sequences, FiniteSets, TLC

\* ------------------------------------------------------------------------
\* Bounds of the model
\* ------------------------------------------------------------------------
MaxLen == 2        \* longest order list the remote source returns
MaxMsg == 2        \* messages the channel accepts before every send fails
MaxOrders == 2     \* longest order list a browsing session is shown

\* ------------------------------------------------------------------------
\* Values
\* ------------------------------------------------------------------------
None == "none"                 \* Python None for strings (order number, user id)
NoText == <<>>                 \* Python None for a status text
NoMessage == 0                 \* SQL NULL / Python None for a message id

Accounts == {"a1", "a2", "a3"} \* remote user ids
Chats == {1, 2}                \* telegram ids
Orders == {"o1", "o2", "o3", "o4"}   \* order numbers
FlowChats == {1}               \* chats that use the interactive handlers
FlowAccounts == {"a1"}         \* accounts those chats authorize as
Statuses == {"s1", "s2"}       \* what the remote source reports for an order

Owner(o) == IF o = "o1" THEN "a1" ELSE IF o = "o2" THEN "a2" ELSE "a3"
OrdersOf(a) == {o \in Orders : Owner(o) = a}

VARIABLES
    remoteStatus,   \* remote source: order number -> current status
    users,          \* db table users: telegram_id -> user_id (None: no row)
    store,          \* db table orders: order_number -> row
    cache,          \* _status_cache: order_number -> text (NoText: no key)
    msgs,           \* chat channel: message_id -> [chat, text, alive]
    sess,           \* context.user_data["abcp_user_id"] of each chat
    flow,           \* the interactive flow in progress: its chat, position and fetched orders
    wd,             \* watchdog_job: position, users still to visit, actions to dispatch
    delivered,      \* per order: successful sends and edits of the current pass
    failed,         \* per order: a dispatch failed in the current/an earlier pass, no remote change since
    ud,             \* context.user_data of the chat that browses its orders
    given,          \* every (token, order number) pair a token map of that chat ever held
    seen,           \* the largest length of an order list that chat's session has held
    card,           \* the order detail message left in that chat: its refresh token and order
    idem,           \* per order: observed by the current/previous pass, no remote change since
    worker,         \* the thread of asyncio.to_thread(build_changes_actions_for_user, u)
    race,           \* what the pass and the resync in progress (or last completed) fetched;
                    \* the message ids a re-authentication cleared
    last            \* what the last step of the polling pipeline did

hist == <<delivered, failed, idem>>
ever == <<given, seen>>
session == <<ud, ever, card>>
threads == <<worker, race>>
vars == <<remoteStatus, users, store, cache, msgs, sess, flow, wd,
          last, delivered, failed, idem, ud, given, seen, card, worker, race>>

\* ------------------------------------------------------------------------
\* db.py
\* ------------------------------------------------------------------------
NoRow == [exists |-> FALSE, user_id |-> None, status |-> NoText, message_id |-> NoMessage]

get_order_status(st, order_number) ==
    IF st[order_number].exists THEN st[order_number].status ELSE NoText

get_order_message(st, order_number) ==
    IF st[order_number].exists THEN st[order_number].message_id ELSE NoMessage

update_order_status_keepold(st, order_number, user_id, status, message_id) ==
    LET kept == IF st[order_number].exists /\ st[order_number].message_id # NoMessage
                THEN st[order_number].message_id
                ELSE message_id
    IN [st EXCEPT ![order_number] =
            [exists |-> TRUE, user_id |-> user_id, status |-> status, message_id |-> kept]]

update_order_status(st, order_number, user_id, status, message_id) ==
    LET kept == IF message_id = NoMessage /\ st[order_number].exists
                   /\ st[order_number].message_id # NoMessage
                THEN st[order_number].message_id
                ELSE message_id
    IN [st EXCEPT ![order_number] =
            [exists |-> TRUE, user_id |-> user_id, status |-> status, message_id |-> kept]]

clear_order_message(st, order_number) ==
    IF st[order_number].exists
    THEN [st EXCEPT ![order_number].message_id = NoMessage]
    ELSE st

get_user_order_snapshots(st, user_id) ==
    {o \in Orders : st[o].exists /\ st[o].user_id = user_id}

RECURSIVE SortedChats(_)
SortedChats(S) ==
    IF S = {} THEN <<>>
    ELSE LET m == CHOOSE x \in S : \A y \in S : x <= y
         IN <<m>> \o SortedChats(S \ {m})

get_all_users(us) ==
    LET rows == {c \in Chats : us[c] # None}
        ids == SortedChats(rows)
    IN [i \in 1..Len(ids) |-> [telegram_id |-> ids[i], user_id |-> us[ids[i]]]]

\* ------------------------------------------------------------------------
\* Remote source (api.py) and rendering
\* ------------------------------------------------------------------------
OrderRecord(n, rs) ==
    [number |-> n, status |-> IF n = None THEN "s1" ELSE rs[n]]

\* every list of at most MaxLen order numbers of the account; a number may
\* repeat. A record without a number is skipped by every loop over the orders,
\* so a list with such records behaves as the list without them.
RECURSIVE ListsUpTo(_, _)
ListsUpTo(S, k) ==
    IF k = 0 THEN {<<>>}
    ELSE LET shorter == ListsUpTo(S, k - 1)
         IN shorter \cup {Append(l, x) : l \in {m \in shorter : Len(m) = k - 1}, x \in S}

NumberLists(a) == ListsUpTo(OrdersOf(a), MaxLen)

get_orders_by_user_id_unguarded(ok, numbers, rs) ==
    [i \in 1..Len(numbers) |-> OrderRecord(numbers[i], rs)]

get_orders_by_user_id(ok, numbers, rs) ==
    IF ok THEN [i \in 1..Len(numbers) |-> OrderRecord(numbers[i], rs)] ELSE <<>>

Header == "Zakaz N"
format_order_status(order) == <<Header, order.number, order.status>>
HasHeader(text) == Len(text) > 0 /\ text[1] = Header
NotificationText(fresh_text) == <<"Obnovlenie statusov">> \o fresh_text

\* ------------------------------------------------------------------------
\* Change detector: build_changes_actions_for_user
\* ------------------------------------------------------------------------
IsUnchanged_both(fresh_text, cache_text, stored_status) ==
    fresh_text = cache_text /\ fresh_text = stored_status

IsUnchanged(fresh_text, cache_text, stored_status) ==
    fresh_text = cache_text \/ fresh_text = stored_status

IsFirstSighting_never(stored_status) == FALSE

IsFirstSighting(stored_status) ==
    stored_status = NoText \/ ~HasHeader(stored_status)

NotificationAction(chat_id, user_id, number, stored_message_id, fresh_text) ==
    [chat_id |-> chat_id, user_id |-> user_id, order_number |-> number,
     message_id |-> stored_message_id, text |-> NotificationText(fresh_text),
     raw_text |-> fresh_text]

\* the loop over the fetched orders, carrying the store, the cache and the
\* actions collected so far
RECURSIVE BuildLoop(_, _, _, _, _, _)
BuildLoop(orders, chat_id, user_id, st, ca, actions) ==
    IF orders = <<>> THEN [store |-> st, cache |-> ca, actions |-> actions]
    ELSE
      LET order == Head(orders)
          number == order.number
      IN IF number = None
         THEN BuildLoop(Tail(orders), chat_id, user_id, st, ca, actions)
         ELSE
           LET fresh_text == format_order_status(order)
               cache_text == ca[number]
               stored_status == get_order_status(st, number)
               stored_message_id == get_order_message(st, number)
           IN IF IsUnchanged(fresh_text, cache_text, stored_status)
              THEN BuildLoop(Tail(orders), chat_id, user_id, st,
                             IF cache_text # fresh_text
                             THEN [ca EXCEPT ![number] = fresh_text] ELSE ca,
                             actions)
              ELSE IF IsFirstSighting(stored_status)
              THEN BuildLoop(Tail(orders), chat_id, user_id,
                             update_order_status(st, number, user_id, fresh_text,
                                                 stored_message_id),
                             [ca EXCEPT ![number] = fresh_text], actions)
              ELSE BuildLoop(Tail(orders), chat_id, user_id, st, ca,
                             Append(actions,
                                    NotificationAction(chat_id, user_id, number,
                                                       stored_message_id, fresh_text)))

build_changes_actions_for_user_reversed(user, orders, st, ca) ==
    LET r == IF user.telegram_id \notin Chats \/ user.user_id = None
             THEN [store |-> st, cache |-> ca, actions |-> <<>>]
             ELSE BuildLoop(orders, user.telegram_id, user.user_id, st, ca, <<>>)
    IN [r EXCEPT !.actions = [i \in 1..Len(r.actions) |->
                                r.actions[Len(r.actions) + 1 - i]]]

build_changes_actions_for_user(user, orders, st, ca) ==
    IF user.telegram_id \notin Chats \/ user.user_id = None
    THEN [store |-> st, cache |-> ca, actions |-> <<>>]
    ELSE BuildLoop(orders, user.telegram_id, user.user_id, st, ca, <<>>)

\* ------------------------------------------------------------------------
\* Chat channel
\* ------------------------------------------------------------------------
\* what bot.edit_message_text can answer: "ok"; a BadRequest, because the
\* message is gone ("gone"), already shows this text ("not_modified") or is
\* refused for another reason ("bad_request"); or another error ("error")
EditOutcomes(ms, chat_id, message_id, text) ==
    IF message_id \in 1..Len(ms) /\ ms[message_id].alive /\ ms[message_id].chat = chat_id
    THEN IF ms[message_id].text = text
         THEN {"not_modified", "error"}
         ELSE {"ok", "bad_request", "error"}
    ELSE {"gone", "error"}

\* A message that no snapshot and no pending action refers to can never be
\* addressed again (message ids reach the bot only through the store and the
\* actions built from it): the channel keeps only that its id is taken.
Forgotten == [chat |-> 0, text |-> <<>>, alive |-> FALSE]
Referenced(st, actions) ==
    {st[o].message_id : o \in Orders} \cup {actions[i].message_id : i \in 1..Len(actions)}
Channel(ms, st, actions) ==
    [m \in 1..Len(ms) |-> IF m \in Referenced(st, actions) THEN ms[m] ELSE Forgotten]

SendOutcomes(ms) == IF Len(ms) < MaxMsg THEN {"ok", "error"} ELSE {"error"}

IsBadRequest_any(outcome) == outcome \in {"gone", "not_modified", "bad_request", "error"}

IsBadRequest(outcome) == outcome \in {"gone", "not_modified", "bad_request"}

\* new_message_id after the edit attempt
AfterEdit_keep(message_id, outcome) == message_id

AfterEdit(message_id, outcome) ==
    IF IsBadRequest(outcome) THEN NoMessage ELSE message_id

NeedsSend_always(new_message_id) == TRUE

NeedsSend(new_message_id) == new_message_id = NoMessage

\* ------------------------------------------------------------------------
\* Interactive resync helpers
\* ------------------------------------------------------------------------
RECURSIVE update_cache_from_orders(_, _)
update_cache_from_orders(ca, orders) ==
    IF orders = <<>> THEN ca
    ELSE LET order == Head(orders)
         IN IF order.number = None
            THEN update_cache_from_orders(ca, Tail(orders))
            ELSE update_cache_from_orders(
                     [ca EXCEPT ![order.number] = format_order_status(order)],
                     Tail(orders))

RECURSIVE persist_orders_snapshot(_, _, _)
persist_orders_snapshot(st, user_id, orders) ==
    IF user_id = None \/ orders = <<>> THEN st
    ELSE LET order == Head(orders)
         IN IF order.number = None
            THEN persist_orders_snapshot(st, user_id, Tail(orders))
            ELSE persist_orders_snapshot(
                     update_order_status(st, order.number, user_id,
                                         format_order_status(order), NoMessage),
                     user_id, Tail(orders))

Numbers(orders) == {orders[i].number : i \in 1..Len(orders)} \ {None}

\* ------------------------------------------------------------------------
\* Order browsing: filters, metrics, callback tokens, sync_orders_context
\* ------------------------------------------------------------------------
SessionChat == 1
SessionAccount == "a3"

\* a position status is the sequence of its words
Open == <<"V", "puti">>
Closed == <<"gotov", "k", "vydache">>
ClosedUpper == <<"OTKAZ">>
DONE_KEYWORDS == {"gotov", "vydan", "zakryt", "zaversh", "otmen", "otkaz"}
FILTER_MODES == {"all", "active", "unpaid"}

Lower(word) == IF word = "OTKAZ" THEN "otkaz" ELSE IF word = "V" THEN "v" ELSE word

ViewRecord(n, paid, positions, rs) ==
    [number |-> n, status |-> IF n = None THEN "s1" ELSE rs[n],
     paid |-> paid, positions |-> positions]

NoOrder == ViewRecord(None, FALSE, <<>>, <<>>)

is_position_closed(status) ==
    \E i \in 1..Len(status) : Lower(status[i]) \in DONE_KEYWORDS

is_order_active_unpaid(order) == ~order.paid

is_order_active(order) ==
    IF order.positions = <<>> THEN ~order.paid
    ELSE \E i \in 1..Len(order.positions) : ~is_position_closed(order.positions[i])

is_order_unpaid(order) == ~order.paid

calculate_orders_metrics(orders) ==
    [total |-> Len(orders),
     active |-> Cardinality({i \in 1..Len(orders) : is_order_active(orders[i])}),
     unpaid |-> Cardinality({i \in 1..Len(orders) : is_order_unpaid(orders[i])})]

filter_orders_for_view_all(orders, mode) == orders

filter_orders_for_view(orders, mode) ==
    IF mode = "active" THEN SelectSeq(orders, is_order_active)
    ELSE IF mode = "unpaid" THEN SelectSeq(orders, is_order_unpaid)
    ELSE orders

\* format(counter, "x"): the hexadecimal digits of counter
HexDigits == <<"0", "1", "2", "3", "4", "5", "6", "7",
               "8", "9", "a", "b", "c", "d", "e", "f">>

RECURSIVE Hex(_)
Hex(n) ==
    IF n < 16 THEN <<HexDigits[n + 1]>>
    ELSE Hex(n \div 16) \o <<HexDigits[(n % 16) + 1]>>

NoTokens == [o \in Orders |-> NoText]

next_token_first(counter, used_tokens) ==
    [token |-> Hex(counter), counter |-> counter + 1]

RECURSIVE next_token(_, _)
next_token(counter, used_tokens) ==
    LET candidate == Hex(counter)
    IN IF candidate \notin used_tokens
       THEN [token |-> candidate, counter |-> counter + 1]
       ELSE next_token(counter + 1, used_tokens)

\* token_to_number[token] = number on a dict held as a set of pairs
SetToken(token_to_number, token, number) ==
    {p \in token_to_number : p[1] # token} \cup {<<token, number>>}

RECURSIVE AssignLoop(_, _, _, _, _, _)
AssignLoop(orders, existing_map, used_tokens, number_to_token, token_to_number, counter) ==
    IF orders = <<>>
    THEN [number_to_token |-> number_to_token, token_to_number |-> token_to_number]
    ELSE LET number == Head(orders).number
         IN IF number = None
            THEN AssignLoop(Tail(orders), existing_map, used_tokens,
                            number_to_token, token_to_number, counter)
            ELSE LET token == existing_map[number]
                     reuse == token # NoText /\ token \notin used_tokens
                     fresh == next_token(counter, used_tokens)
                     assigned == IF reuse THEN token ELSE fresh.token
                 IN AssignLoop(Tail(orders), existing_map,
                               used_tokens \cup {assigned},
                               [number_to_token EXCEPT ![number] = assigned],
                               SetToken(token_to_number, assigned, number),
                               IF reuse THEN counter ELSE fresh.counter)

assign_order_tokens_from1(orders, existing_map) ==
    AssignLoop(orders, existing_map, {}, NoTokens, {}, 1)

assign_order_tokens(orders, existing_map) ==
    AssignLoop(orders, existing_map, {}, NoTokens, {}, 0)

OrdersMap_first(orders, map) ==
    IF orders = <<>> \/ Head(orders).number = None THEN map
    ELSE [map EXCEPT ![Head(orders).number] = Head(orders)]

RECURSIVE OrdersMap(_, _)
OrdersMap(orders, map) ==
    IF orders = <<>> THEN map
    ELSE LET order == Head(orders)
         IN OrdersMap(Tail(orders),
                      IF order.number = None THEN map
                      ELSE [map EXCEPT ![order.number] = order])

NoMetrics == [total |-> 0, active |-> 0, unpaid |-> 0]

NoSession ==
    [has_list |-> FALSE, orders_list |-> <<>>,
     orders_map |-> [o \in Orders |-> NoOrder],
     orders_number_to_token |-> NoTokens, orders_token_to_number |-> {},
     has_metrics |-> FALSE, orders_metrics |-> NoMetrics,
     orders_filter |-> "none", orders_filtered_list |-> <<>>, view |-> "none"]

NeedsFetch_always(force_refresh, u) == TRUE

NeedsFetch(force_refresh, u) == force_refresh \/ ~u.has_list

MetricsAfter_kept(u, needs_fetch, force_refresh, orders_list) ==
    IF u.has_metrics THEN u.orders_metrics ELSE calculate_orders_metrics(orders_list)

MetricsAfter(u, needs_fetch, force_refresh, orders_list) ==
    IF force_refresh \/ needs_fetch \/ ~u.has_metrics
    THEN calculate_orders_metrics(orders_list)
    ELSE u.orders_metrics

DefaultFilter(metrics) == IF metrics.active # 0 THEN "active" ELSE "all"

\* sync_orders_context for a chat whose abcp_user_id is user_id; fetched is
\* what get_orders_by_user_id returns if it is called
sync_orders_context(u, user_id, force_refresh, filter_mode, fetched, ca, st) ==
    LET needs_fetch == NeedsFetch(force_refresh, u)
        orders_list == IF needs_fetch THEN fetched ELSE u.orders_list
        reassign == IF needs_fetch
                    THEN assign_order_tokens(orders_list, u.orders_number_to_token)
                    ELSE assign_order_tokens(orders_list, NoTokens)
        retoken == needs_fetch
                   \/ (u.orders_number_to_token = NoTokens /\ orders_list # <<>>)
        metrics == MetricsAfter(u, needs_fetch, force_refresh, orders_list)
        chosen == IF filter_mode # "none" THEN filter_mode ELSE u.orders_filter
        current_filter == IF chosen \notin FILTER_MODES THEN DefaultFilter(metrics)
                          ELSE chosen
    IN [ud |-> [u EXCEPT
                  !.has_list = TRUE,
                  !.orders_list = orders_list,
                  !.orders_map = IF needs_fetch
                                 THEN OrdersMap(orders_list, [o \in Orders |-> NoOrder])
                                 ELSE @,
                  !.orders_number_to_token =
                      IF retoken THEN reassign.number_to_token ELSE @,
                  !.orders_token_to_number =
                      IF retoken THEN reassign.token_to_number ELSE @,
                  !.has_metrics = TRUE,
                  !.orders_metrics = metrics,
                  !.orders_filter = current_filter,
                  !.orders_filtered_list =
                      filter_orders_for_view(orders_list, current_filter)],
        cache |-> IF needs_fetch THEN update_cache_from_orders(ca, orders_list) ELSE ca,
        store |-> IF needs_fetch THEN persist_orders_snapshot(st, user_id, orders_list)
                  ELSE st,
        fetched |-> needs_fetch]

\* ------------------------------------------------------------------------
\* State machine
\* ------------------------------------------------------------------------
NoStep == [kind |-> "none"]
NoCard == [token |-> NoText, number |-> None]
NoFlow == [pc |-> "idle", chat |-> 0, orders |-> <<>>, auth |-> FALSE]
\* no worker thread is running; what a running one holds in its locals
NoRead == [cache_text |-> NoText, stored_status |-> NoText, stored_message_id |-> NoMessage]
NoWorker == [pc |-> "off", orders |-> <<>>, read |-> NoRead, dirty |-> FALSE,
             actions |-> <<>>]
NoFetch == [o \in Orders |-> NoText]
NoRace == [pass |-> NoFetch, sync |-> NoFetch, overlap |-> FALSE, cleared |-> {}]

Init ==
    /\ remoteStatus = [o \in Orders |-> "s1"]
    /\ users = [c \in Chats |-> None]
    /\ store = [o \in Orders |-> NoRow]
    /\ cache = [o \in Orders |-> NoText]
    /\ msgs = <<>>
    /\ sess = [c \in Chats |-> None]
    /\ flow = NoFlow
    /\ wd = [pc |-> "idle", users |-> <<>>, actions |-> <<>>]
    /\ delivered = [o \in Orders |-> 0]
    /\ failed = [o \in Orders |-> "no"]
    /\ idem = [o \in Orders |-> "no"]
    /\ ud = NoSession
    /\ given = {}
    /\ seen = 0
    /\ card = NoCard
    /\ worker = NoWorker
    /\ race = NoRace
    /\ last = NoStep

\* bookkeeping at the start of a pass: what was seen in the pass before
Older(f) == [o \in Orders |-> IF f[o] = "cur" THEN "prev" ELSE "no"]
Earlier(f) == [o \in Orders |-> IF f[o] = "no" THEN "no" ELSE "prev"]

\* watchdog_job: users = get_all_users(); return when there are none
PassStart ==
    /\ wd.pc = "idle"
    /\ LET us == get_all_users(users)
       IN wd' = IF us = <<>> THEN wd
                ELSE [pc |-> "run", users |-> us, actions |-> <<>>]
    /\ last' = NoStep
    /\ UNCHANGED <<flow, remoteStatus, users, store, cache, msgs, sess>>

\* watchdog_job: actions = await asyncio.to_thread(build_changes_actions_for_user, u)
Build ==
    /\ wd.pc = "run" /\ wd.actions = <<>> /\ wd.users # <<>>
    /\ LET u == Head(wd.users)
       IN \E ok \in BOOLEAN, numbers \in NumberLists(u.user_id) :
            LET orders == get_orders_by_user_id(ok, numbers, remoteStatus)
                r == build_changes_actions_for_user(u, orders, store, cache)
            IN /\ store' = r.store
               /\ cache' = r.cache
               /\ wd' = [wd EXCEPT !.users = Tail(wd.users), !.actions = r.actions]
               /\ last' = [kind |-> "build", user |-> u, orders |-> orders,
                           actions |-> r.actions, ok |-> ok,
                           nosnap |-> {o \in Numbers(orders) : ~store[o].exists},
                           idem |-> {o \in Numbers(orders) : idem[o] = "prev"}]
    /\ UNCHANGED <<flow, remoteStatus, users, msgs, sess>>

\* watchdog_job: build_changes_actions_for_user raises while it handles the
\* k-th record (a record that is not a dict at 1433, a rendering error at
\* 1438, a store read error at 1440-1441). Nothing in the function catches
\* it, the await at 1496 re-raises it outside the per-action try, and the
\* handler at 1543 ends the pass. The records before the k-th were handled.
BuildRaises ==
    /\ wd.pc = "run" /\ wd.actions = <<>> /\ wd.users # <<>>
    /\ LET u == Head(wd.users)
       IN \E numbers \in NumberLists(u.user_id) \ {<<>>} :
            \E k \in 1..Len(numbers) :
              LET orders == get_orders_by_user_id(TRUE, numbers, remoteStatus)
                  r == build_changes_actions_for_user(u, SubSeq(orders, 1, k - 1),
                                                      store, cache)
              IN /\ store' = r.store
                 /\ cache' = r.cache
                 /\ wd' = [pc |-> "idle", users |-> <<>>, actions |-> <<>>]
                 /\ last' = [kind |-> "abort", user |-> u, orders |-> orders,
                             at |-> k, skipped |-> Tail(wd.users)]
    /\ UNCHANGED <<flow, remoteStatus, users, msgs, sess>>

NextActions_requeue(actions, success) ==
    IF success THEN Tail(actions) ELSE Append(Tail(actions), Head(actions))

\* the for loop over the actions moves on after a success and after a failure
NextActions(actions, success) == Tail(actions)

\* watchdog_job: the body of the loop over the actions of one user
Dispatch ==
    /\ wd.pc = "run" /\ wd.actions # <<>>
    /\ LET action == Head(wd.actions)
           o == action.order_number
           message_id == action.message_id
       IN \E e \in (IF message_id # NoMessage
                    THEN EditOutcomes(msgs, action.chat_id, message_id, action.text)
                    ELSE {"none"}) :
            LET edited == IF e = "ok"
                          THEN [msgs EXCEPT ![message_id].text = action.text]
                          ELSE msgs
                raised == e \notin {"none", "ok"} /\ ~IsBadRequest(e)
                new1 == AfterEdit(message_id, e)
            IN \E s \in (IF ~raised /\ NeedsSend(new1)
                         THEN SendOutcomes(edited) ELSE {"none"}) :
                 LET sent == IF s = "ok"
                             THEN Append(edited, [chat |-> action.chat_id,
                                                  text |-> action.text, alive |-> TRUE])
                             ELSE edited
                     new2 == IF s = "ok" THEN Len(sent) ELSE new1
                     success == ~raised /\ s # "error"
                 IN /\ store' = IF success
                                THEN update_order_status(store, o, action.user_id,
                                                         action.raw_text, new2)
                                ELSE store
                    /\ cache' = IF success THEN [cache EXCEPT ![o] = action.raw_text]
                                ELSE cache
                    /\ wd' = [wd EXCEPT !.actions = NextActions(wd.actions, success)]
                    /\ msgs' = Channel(sent, store', wd'.actions)
                    /\ last' = [kind |-> "dispatch", action |-> action, edit |-> e,
                                send |-> s, new_message_id |-> new2, success |-> success,
                                retry |-> failed[o] = "prev"]
    /\ UNCHANGED <<flow, remoteStatus, users, sess>>

\* watchdog_job: every user visited
PassEnd ==
    /\ wd.pc = "run" /\ wd.actions = <<>> /\ wd.users = <<>>
    /\ wd' = [wd EXCEPT !.pc = "idle"]
    /\ last' = NoStep
    /\ UNCHANGED <<flow, remoteStatus, users, store, cache, msgs, sess>>

\* complete_authorization_flow up to the forced resync: the notifications of
\* the account's snapshots are deleted (each deletion may fail) and every
\* snapshot's message id is cleared
Auth(c, a) ==
    /\ flow.pc = "idle"
    /\ LET snapshots == get_user_order_snapshots(store, a)
           deletable == {o \in snapshots :
                            /\ store[o].message_id \in 1..Len(msgs)
                            /\ msgs[store[o].message_id].alive
                            /\ msgs[store[o].message_id].chat = c}
       IN \E deleted \in SUBSET deletable :
            /\ store' = [o \in Orders |->
                           IF o \in snapshots THEN clear_order_message(store, o)[o]
                           ELSE store[o]]
            /\ msgs' = Channel([m \in 1..Len(msgs) |->
                                   IF \E o \in deleted : store[o].message_id = m
                                   THEN [msgs[m] EXCEPT !.alive = FALSE] ELSE msgs[m]],
                               store', wd.actions)
    /\ sess' = [sess EXCEPT ![c] = a]
    /\ flow' = [pc |-> "fetch", chat |-> c, orders |-> <<>>, auth |-> TRUE]
    /\ last' = NoStep
    /\ UNCHANGED <<remoteStatus, users, cache, wd>>

\* a handler that calls sync_orders_context(force_refresh=True)
Refresh(c) ==
    /\ flow.pc = "idle" /\ sess[c] # None
    /\ flow' = [pc |-> "fetch", chat |-> c, orders |-> <<>>, auth |-> FALSE]
    /\ last' = NoStep
    /\ UNCHANGED <<remoteStatus, users, store, cache, msgs, sess, wd>>

\* sync_orders_context: orders = await asyncio.to_thread(get_orders_by_user_id, user_id)
SyncFetch ==
    /\ flow.pc = "fetch"
    /\ \E ok \in BOOLEAN, numbers \in NumberLists(sess[flow.chat]) :
         flow' = [flow EXCEPT !.orders = get_orders_by_user_id(ok, numbers, remoteStatus),
                              !.pc = "cache"]
    /\ last' = NoStep
    /\ UNCHANGED <<remoteStatus, users, store, cache, msgs, sess, wd>>

\* sync_orders_context: update_cache_from_orders(orders_list)
SyncCache ==
    /\ flow.pc = "cache"
    /\ cache' = update_cache_from_orders(cache, flow.orders)
    /\ flow' = [flow EXCEPT !.pc = "persist"]
    /\ last' = NoStep
    /\ UNCHANGED <<remoteStatus, users, store, msgs, sess, wd>>

\* sync_orders_context: await asyncio.to_thread(persist_orders_snapshot, ...);
\* complete_authorization_flow then registers the user (save_user)
SyncPersist ==
    /\ flow.pc = "persist"
    /\ store' = persist_orders_snapshot(store, sess[flow.chat], flow.orders)
    /\ users' = IF flow.auth THEN [users EXCEPT ![flow.chat] = sess[flow.chat]] ELSE users
    /\ flow' = NoFlow
    /\ last' = NoStep
    /\ UNCHANGED <<remoteStatus, cache, msgs, sess, wd>>

\* the remote source reports another status for an order
Known(a) == \E c \in Chats : users[c] = a \/ sess[c] = a

RemoteChange(o) ==
    /\ Known(Owner(o))
    /\ \E s \in Statuses \ {remoteStatus[o]} :
         remoteStatus' = [remoteStatus EXCEPT ![o] = s]
    /\ last' = NoStep
    /\ UNCHANGED <<flow, users, store, cache, msgs, sess, wd>>

\* the user deletes a notification in the chat
UserDeletesMessage(m) ==
    /\ m \in 1..Len(msgs) /\ msgs[m].alive
    /\ msgs' = [msgs EXCEPT ![m].alive = FALSE]
    /\ last' = NoStep
    /\ UNCHANGED <<flow, remoteStatus, users, store, cache, sess, wd>>

Next ==
    \/ PassStart /\ UNCHANGED <<hist, session, threads>>
    \/ Build /\ UNCHANGED <<hist, session, threads>>
    \/ BuildRaises /\ UNCHANGED <<hist, session, threads>>
    \/ Dispatch /\ UNCHANGED <<hist, session, threads>>
    \/ PassEnd /\ UNCHANGED <<hist, session, threads>>
    \/ \E c \in FlowChats, a \in FlowAccounts : Auth(c, a) /\ UNCHANGED <<hist, session, threads>>
    \/ \E c \in FlowChats : Refresh(c) /\ UNCHANGED <<hist, session, threads>>
    \/ SyncFetch /\ UNCHANGED <<hist, session, threads>>
    \/ SyncCache /\ UNCHANGED <<hist, session, threads>>
    \/ SyncPersist /\ UNCHANGED <<hist, session, threads>>
    \/ \E o \in Orders : RemoteChange(o) /\ UNCHANGED <<hist, session, threads>>
    \/ \E m \in 1..MaxMsg : UserDeletesMessage(m) /\ UNCHANGED <<hist, session, threads>>

Spec == Init /\ [][Next]_vars

\* ------------------------------------------------------------------------
\* The same steps with the history of each order recorded
\* ------------------------------------------------------------------------
Delivered(l) == (IF l.edit = "ok" THEN 1 ELSE 0) + (IF l.send = "ok" THEN 1 ELSE 0)

HistPassStart ==
    /\ delivered' = [o \in Orders |-> 0]
    /\ failed' = Earlier(failed)
    /\ idem' = Older(idem)

HistBuild ==
    /\ idem' = [o \in Orders |-> IF o \in Numbers(last'.orders) THEN "cur" ELSE idem[o]]
    /\ UNCHANGED <<delivered, failed>>

HistDispatch ==
    LET o == last'.action.order_number
    IN /\ delivered' = [delivered EXCEPT ![o] = @ + Delivered(last')]
       /\ failed' = IF last'.success THEN failed ELSE [failed EXCEPT ![o] = "cur"]
       /\ UNCHANGED idem

HistRemoteChange ==
    /\ failed' = [o \in Orders |-> IF remoteStatus'[o] # remoteStatus[o] THEN "no" ELSE failed[o]]
    /\ idem' = [o \in Orders |-> IF remoteStatus'[o] # remoteStatus[o] THEN "no" ELSE idem[o]]
    /\ UNCHANGED delivered

NextHist ==
    \/ PassStart /\ HistPassStart /\ UNCHANGED <<session, threads>>
    \/ Build /\ HistBuild /\ UNCHANGED <<session, threads>>
    \/ BuildRaises /\ UNCHANGED <<hist, session, threads>>
    \/ Dispatch /\ HistDispatch /\ UNCHANGED <<session, threads>>
    \/ PassEnd /\ UNCHANGED <<hist, session, threads>>
    \/ \E c \in FlowChats, a \in FlowAccounts : Auth(c, a) /\ UNCHANGED <<hist, session, threads>>
    \/ \E c \in FlowChats : Refresh(c) /\ UNCHANGED <<hist, session, threads>>
    \/ SyncFetch /\ UNCHANGED <<hist, session, threads>>
    \/ SyncCache /\ UNCHANGED <<hist, session, threads>>
    \/ SyncPersist /\ UNCHANGED <<hist, session, threads>>
    \/ \E o \in Orders : RemoteChange(o) /\ HistRemoteChange /\ UNCHANGED <<session, threads>>
    \/ \E m \in 1..MaxMsg : UserDeletesMessage(m) /\ UNCHANGED <<hist, session, threads>>

SpecHist == Init /\ [][NextHist]_vars

\* ------------------------------------------------------------------------
\* A polling pass over two registered accounts, no interactive handler running
\* ------------------------------------------------------------------------
Registered == [c \in Chats |-> IF c = 1 THEN "a1" ELSE "a2"]

\* each account was authorized earlier: an order it had then has a snapshot
\* without a message id and a cache entry, an order it got later has neither
InitPass ==
    /\ remoteStatus = [o \in Orders |-> "s1"]
    /\ users = Registered
    /\ \E had \in SUBSET (OrdersOf("a1") \cup OrdersOf("a2")) :
         /\ store = [o \in Orders |->
                        IF o \in had
                        THEN [exists |-> TRUE, user_id |-> Owner(o),
                              status |-> format_order_status(OrderRecord(o, remoteStatus)),
                              message_id |-> NoMessage]
                        ELSE NoRow]
         /\ cache = [o \in Orders |->
                        IF o \in had THEN format_order_status(OrderRecord(o, remoteStatus))
                        ELSE NoText]
    /\ msgs = <<>>
    /\ sess = [c \in Chats |-> None]
    /\ flow = NoFlow
    /\ wd = [pc |-> "idle", users |-> <<>>, actions |-> <<>>]
    /\ delivered = [o \in Orders |-> 0]
    /\ failed = [o \in Orders |-> "no"]
    /\ idem = [o \in Orders |-> "no"]
    /\ ud = NoSession
    /\ given = {}
    /\ seen = 0
    /\ card = NoCard
    /\ worker = NoWorker
    /\ race = NoRace
    /\ last = NoStep

NextPass ==
    \/ PassStart /\ UNCHANGED <<hist, session, threads>>
    \/ Build /\ UNCHANGED <<hist, session, threads>>
    \/ BuildRaises /\ UNCHANGED <<hist, session, threads>>
    \/ Dispatch /\ UNCHANGED <<hist, session, threads>>
    \/ PassEnd /\ UNCHANGED <<hist, session, threads>>
    \/ \E o \in Orders : RemoteChange(o) /\ UNCHANGED <<hist, session, threads>>
    \/ \E m \in 1..MaxMsg : UserDeletesMessage(m) /\ UNCHANGED <<hist, session, threads>>

SpecPass == InitPass /\ [][NextPass]_vars

\* ------------------------------------------------------------------------
\* One chat authorizes and browses its orders (handlers run one at a time)
\* ------------------------------------------------------------------------
TokenShapes ==
    {[number |-> n, paid |-> FALSE, positions |-> <<>>] :
        n \in OrdersOf(SessionAccount) \cup {None}}
ViewShapes ==
    {[number |-> "o3", paid |-> FALSE, positions |-> <<>>],
     [number |-> "o3", paid |-> TRUE, positions |-> <<ClosedUpper, Open>>],
     [number |-> "o4", paid |-> FALSE, positions |-> <<Closed>>],
     [number |-> None, paid |-> TRUE, positions |-> <<ClosedUpper>>]}
TokenLists == ListsUpTo(TokenShapes, MaxOrders)
ViewLists == ListsUpTo(ViewShapes, MaxOrders)

Fetched(shapes, rs) ==
    [i \in 1..Len(shapes) |->
        ViewRecord(shapes[i].number, shapes[i].paid, shapes[i].positions, rs)]

\* the lists the remote source may answer with, when the handler asks it
Answers(L, force_refresh) == IF NeedsFetch(force_refresh, ud) THEN L ELSE {<<>>}

\* safe_edit_message_text and safe_edit_query_message: edit is the answer of
\* the channel to the edit of the text, markup its answer to the edit of the
\* reply markup that follows a "message is not modified" ("none": not tried)
EditResults == {"ok", "not_modified", "bad_request", "error"}
MarkupResults == {"ok", "bad_request", "error"}
Renders ==
    {[edit |-> e, markup |-> m] :
        e \in EditResults \ {"not_modified"}, m \in {"none"}}
    \cup {[edit |-> "not_modified", markup |-> m] : m \in MarkupResults}
Rendered == [edit |-> "ok", markup |-> "none"]

safe_edit_message_text(r) ==
    IF r.edit = "ok" THEN "true"
    ELSE IF r.edit = "not_modified"
         THEN IF r.markup \in {"ok", "bad_request"} THEN "true" ELSE "raised"
         ELSE "raised"

safe_edit_query_message(r) ==
    IF r.edit = "ok" THEN "true"
    ELSE IF r.edit = "not_modified"
         THEN IF r.markup \in {"ok", "bad_request"} THEN "true" ELSE "raised"
         ELSE "raised"

\* send_overview_message with a previous message: what the edit gave and
\* whether the previous message was deleted and a new one sent instead
send_overview_message(r) ==
    [edit |-> r.edit, markup |-> r.markup,
     result |-> safe_edit_message_text(r),
     replaced |-> safe_edit_message_text(r) = "raised"]

\* channel operations of a text handler (send_overview_message,
\* refresh_menu_keyboard, try_delete_message) and of a callback that renders
\* (safe_edit_query_message, query.answer, refresh_menu_keyboard)
TextOps == {"edit", "delete", "send"}
CallbackOps == {"edit", "answer", "delete", "send"}

\* the overview is shown in the active message: a detail card that was the
\* active message is gone, a card the session no longer tracks stays
Overviewed(c, u) == IF c.number = u.view THEN NoCard ELSE c

\* a handler whose effect on the session is one call of sync_orders_context
Synced(L, R, force_refresh, filter_mode, view) ==
    /\ sess[SessionChat] # None
    /\ \E shapes \in Answers(L, force_refresh), render \in R :
         \E r \in {sync_orders_context(ud, sess[SessionChat], force_refresh, filter_mode,
                                       Fetched(shapes, remoteStatus), cache, store)} :
            /\ ud' = [r.ud EXCEPT !.view = IF view = "same" THEN @ ELSE view]
            /\ cache' = r.cache
            /\ store' = r.store
            /\ last' = [kind |-> "sync", force |-> force_refresh, mode |-> filter_mode,
                        fetched |-> r.fetched, ops |-> TextOps,
                        render |-> send_overview_message(render)]
    /\ UNCHANGED <<remoteStatus, users, msgs, sess, flow, wd, hist, threads>>

\* handle_text_message: "my orders"
ShowOrders(L, R) == Synced(L, R, FALSE, "none", "same")

\* handle_text_message: "refresh"; handle_orders_callback: orders:refresh
RefreshOrders(L, R) == Synced(L, R, TRUE, "none", "overview")

\* handle_text_message: "filter ..."
FilterText(L, R, mode) == Synced(L, R, FALSE, mode, "same")

\* handle_orders_callback: orders:filter:<mode>
FilterButton(L, mode) ==
    /\ sess[SessionChat] # None
    /\ mode \in FILTER_MODES /\ ud.orders_filter # mode
    /\ \E shapes \in Answers(L, FALSE) :
         \E r \in {IF ud.has_list
                   THEN [ud |-> ud, cache |-> cache, store |-> store, fetched |-> FALSE]
                   ELSE sync_orders_context(ud, sess[SessionChat], TRUE, "none",
                                            Fetched(shapes, remoteStatus), cache, store)} :
            /\ ud' = [r.ud EXCEPT
                        !.has_metrics = TRUE,
                        !.orders_metrics =
                            IF r.ud.has_metrics THEN @
                            ELSE calculate_orders_metrics(r.ud.orders_list),
                        !.orders_filter = mode,
                        !.orders_filtered_list = filter_orders_for_view(r.ud.orders_list, mode),
                        !.view = "overview"]
            /\ cache' = r.cache
            /\ store' = r.store
            /\ last' = [kind |-> "filter", mode |-> mode, fetched |-> r.fetched,
                        ops |-> CallbackOps]
    /\ UNCHANGED <<remoteStatus, users, msgs, sess, flow, wd, hist, threads>>

\* complete_authorization_flow: binds the chat to the account, clears the
\* message ids of the account's snapshots, runs the forced sync, shows the
\* overview and registers the user
Authorize(L) ==
    /\ \E shapes \in L :
         LET cleared == [o \in Orders |->
                           IF o \in get_user_order_snapshots(store, SessionAccount)
                           THEN clear_order_message(store, o)[o] ELSE store[o]]
         IN \E r \in {sync_orders_context(ud, SessionAccount, TRUE, "none",
                                          Fetched(shapes, remoteStatus), cache, cleared)} :
              /\ ud' = [r.ud EXCEPT !.view = "overview"]
              /\ cache' = r.cache
              /\ store' = r.store
              /\ last' = [kind |-> "auth", again |-> sess[SessionChat] # None]
    /\ sess' = [sess EXCEPT ![SessionChat] = SessionAccount]
    /\ users' = [users EXCEPT ![SessionChat] = SessionAccount]
    /\ UNCHANGED <<remoteStatus, msgs, flow, wd, hist, threads>>

NextTokens ==
    \/ Authorize(TokenLists) /\ UNCHANGED <<ever, card>>
    \/ ShowOrders(TokenLists, {Rendered}) /\ UNCHANGED <<ever, card>>
    \/ RefreshOrders(TokenLists, {Rendered}) /\ UNCHANGED <<ever, card>>

SpecTokens == Init /\ [][NextTokens]_vars

\* the same steps, recording every pair of token and order number the
\* session has held so far
Allocated == given' = given \cup ud'.orders_token_to_number

NextTokensHist ==
    \/ Authorize(TokenLists) /\ Allocated /\ UNCHANGED <<seen, card>>
    \/ ShowOrders(TokenLists, {Rendered}) /\ Allocated /\ UNCHANGED <<seen, card>>
    \/ RefreshOrders(TokenLists, {Rendered}) /\ Allocated /\ UNCHANGED <<seen, card>>

SpecTokensHist == Init /\ [][NextTokensHist]_vars

NextSession ==
    \/ Authorize(ViewLists) /\ UNCHANGED <<ever, card>>
    \/ ShowOrders(ViewLists, {Rendered}) /\ UNCHANGED <<ever, card>>
    \/ RefreshOrders(ViewLists, {Rendered}) /\ UNCHANGED <<ever, card>>
    \/ \E mode \in FILTER_MODES : FilterText(ViewLists, {Rendered}, mode) /\ UNCHANGED <<ever, card>>
    \/ \E mode \in FILTER_MODES : FilterButton(ViewLists, mode) /\ UNCHANGED <<ever, card>>

SpecSession == Init /\ [][NextSession]_vars

\* ------------------------------------------------------------------------
\* Navigation: the inline buttons of the overview and of an order's detail
\* ------------------------------------------------------------------------
NavShapes ==
    {[number |-> "o3", paid |-> FALSE, positions |-> <<>>],
     [number |-> "o4", paid |-> TRUE, positions |-> <<Closed>>]}
NavLists == ListsUpTo(NavShapes, MaxOrders)

\* the tokens a button of the chat can carry
Tokens == {Hex(k) : k \in 0..MaxOrders}

\* token_to_number.get(token)
Lookup_none(token_to_number, token) == None

Lookup(token_to_number, token) ==
    IF \E p \in token_to_number : p[1] = token
    THEN (CHOOSE p \in token_to_number : p[1] = token)[2]
    ELSE None

\* context.user_data["view"] = f"order:{number}"
Detail(number) == number

\* a forced sync_orders_context inside a callback, when it is needed
Resync(needed, c, fetched) ==
    IF needed
    THEN sync_orders_context(c.ud, sess[SessionChat], TRUE, "none", fetched, c.cache, c.store)
    ELSE [ud |-> c.ud, cache |-> c.cache, store |-> c.store, fetched |-> FALSE]

Fetches(a, b) == (IF a THEN 1 ELSE 0) + (IF b THEN 1 ELSE 0)

\* the refresh button of a detail card: number_to_token.get(number) or token
RefreshButton(u, number, token) ==
    [token |-> IF u.orders_number_to_token[number] # NoText
               THEN u.orders_number_to_token[number] ELSE token,
     number |-> number]

\* the list a handler is answered with if it fetches; order-refresh, when it
\* fetches twice in a row, is answered twice with the same list
Again(L, needed) == IF needed THEN L ELSE {<<>>}

\* handle_orders_callback, "order:<token>"
Select(L, token) ==
    /\ sess[SessionChat] # None
    /\ LET c0 == [ud |-> ud, cache |-> cache, store |-> store]
           miss1 == Lookup(ud.orders_token_to_number, token) = None
       IN \E first \in Again(L, miss1) :
          \E c1 \in {Resync(miss1, c0, Fetched(first, remoteStatus))} :
            LET number == Lookup(c1.ud.orders_token_to_number, token)
                miss2 == number # None /\ c1.ud.orders_map[number] = NoOrder
            IN \E second \in Again(L, miss2) :
                 \E c2 \in {Resync(miss2, c1, Fetched(second, remoteStatus))} :
                   LET found == number # None /\ c2.ud.orders_map[number] # NoOrder
                   IN /\ ud' = [c2.ud EXCEPT
                                  !.view = IF found THEN Detail(number) ELSE "overview"]
                      /\ cache' = c2.cache
                      /\ store' = c2.store
                      /\ card' = IF found THEN RefreshButton(c2.ud, number, token)
                                 ELSE Overviewed(card, ud)
                      /\ last' = [kind |-> "select", token |-> token, missed |-> miss1,
                                  fetches |-> Fetches(miss1, miss2),
                                  shown |-> IF found THEN "detail" ELSE "not_found",
                                  ops |-> CallbackOps \ {"delete", "send"}]
    /\ UNCHANGED <<remoteStatus, users, msgs, sess, flow, wd, hist, threads, ever>>

\* handle_orders_callback, "order-refresh:<token>", pressed on the detail card
\* of the order `on`
RefreshOrder(L, token, on) ==
    /\ sess[SessionChat] # None
    /\ LET c0 == [ud |-> ud, cache |-> cache, store |-> store]
           miss1 == Lookup(ud.orders_token_to_number, token) = None
       IN \E first \in Again(L, miss1) :
          \E c1 \in {Resync(miss1, c0, Fetched(first, remoteStatus))} :
            LET number == Lookup(c1.ud.orders_token_to_number, token)
            IN \E second \in (IF miss1 THEN {first} ELSE Again(L, number # None)) :
                 \E c2 \in {Resync(number # None, c1, Fetched(second, remoteStatus))} :
                   LET found == number # None /\ c2.ud.orders_map[number] # NoOrder
                   IN /\ ud' = [c2.ud EXCEPT
                                  !.view = IF number = None THEN @
                                           ELSE IF found THEN Detail(number)
                                           ELSE "overview"]
                      /\ cache' = c2.cache
                      /\ store' = c2.store
                      /\ card' = IF number = None THEN card
                                 ELSE IF found THEN RefreshButton(c2.ud, number, token)
                                 ELSE Overviewed(card, ud)
                      /\ last' = [kind |-> "refresh_order", token |-> token, on |-> on,
                                  fetches |-> Fetches(miss1, number # None),
                                  shown |-> IF number = None THEN "unknown"
                                            ELSE IF found THEN "detail" ELSE "removed",
                                  ops |-> IF number = None THEN {"answer"}
                                          ELSE CallbackOps \ {"delete", "send"}]
    /\ UNCHANGED <<remoteStatus, users, msgs, sess, flow, wd, hist, threads, ever>>

\* handle_orders_callback, "orders:back": the stored list, metrics or filter
\* is missing
BackNeedsSync_always(u) == TRUE

BackNeedsSync(u) ==
    ~u.has_list \/ ~u.has_metrics \/ u.orders_filter \notin FILTER_MODES

\* handle_orders_callback, "orders:back"
Back(L) ==
    /\ sess[SessionChat] # None
    /\ \E shapes \in Again(L, BackNeedsSync(ud)) :
         \E c \in {Resync(BackNeedsSync(ud), [ud |-> ud, cache |-> cache, store |-> store],
                          Fetched(shapes, remoteStatus))} :
            /\ ud' = [c.ud EXCEPT
                        !.orders_filtered_list =
                            filter_orders_for_view(c.ud.orders_list, c.ud.orders_filter),
                        !.view = "overview"]
            /\ cache' = c.cache
            /\ store' = c.store
            /\ card' = Overviewed(card, ud)
            /\ last' = [kind |-> "back", from |-> ud.view, fetched |-> c.fetched,
                        ops |-> CallbackOps]
    /\ UNCHANGED <<remoteStatus, users, msgs, sess, flow, wd, hist, threads, ever>>

\* handle_orders_callback, "orders:filter:<mode>" with the mode that is
\* already active: the query is answered and nothing else happens
FilterSame(mode) ==
    /\ sess[SessionChat] # None
    /\ mode \in FILTER_MODES /\ ud.orders_filter = mode
    /\ last' = [kind |-> "filter_same", mode |-> mode, fetched |-> FALSE,
                ops |-> {"answer"}]
    /\ UNCHANGED <<remoteStatus, users, store, cache, msgs, sess, flow, wd, hist, threads, session>>

\* the process stops and starts again: user_data is empty, the database and
\* the messages of the chat stay
Restart ==
    /\ sess[SessionChat] # None
    /\ ud' = NoSession
    /\ sess' = [sess EXCEPT ![SessionChat] = None]
    /\ last' = [kind |-> "restart"]
    /\ UNCHANGED <<remoteStatus, users, store, cache, msgs, flow, wd, hist, threads, ever, card>>

\* the card the chat shows, if any: its button can be pressed
Pressable == IF card = NoCard THEN {} ELSE {card}

Shown == card' = Overviewed(card, ud)

\* opening and refreshing order details, across restarts of the process
NextNav ==
    \/ Authorize(NavLists) /\ Shown /\ UNCHANGED ever
    \/ RefreshOrders(NavLists, {Rendered}) /\ Shown /\ UNCHANGED ever
    \/ \E token \in Tokens : Select(NavLists, token)
    \/ \E b \in Pressable : RefreshOrder(NavLists, b.token, b.number)
    \/ Restart

SpecNav == Init /\ [][NextNav]_vars

\* the overview: filters by button and by text, back from a detail, with
\* every answer the channel can give to the edit of the overview message
NextView ==
    \/ Authorize(NavLists) /\ Shown /\ UNCHANGED ever
    \/ ShowOrders(NavLists, Renders) /\ Shown /\ UNCHANGED ever
    \/ \E mode \in FILTER_MODES : FilterText(NavLists, Renders, mode) /\ Shown /\ UNCHANGED ever
    \/ \E mode \in FILTER_MODES : FilterButton(NavLists, mode) /\ Shown /\ UNCHANGED ever
    \/ \E mode \in FILTER_MODES : FilterSame(mode)
    \/ \E token \in Tokens : Select(NavLists, token)
    \/ Back(NavLists)

SpecView == Init /\ [][NextView]_vars

\* ------------------------------------------------------------------------
\* Properties of the polling pipeline
\* ------------------------------------------------------------------------
HasAction(actions, o) == \E i \in 1..Len(actions) : actions[i].order_number = o
FreshText(orders, o) ==
    format_order_status(CHOOSE r \in {orders[i] : i \in 1..Len(orders)} : r.number = o)
Baseline(user_id, text) ==
    [exists |-> TRUE, user_id |-> user_id, status |-> text, message_id |-> NoMessage]

C2_Idempotent ==
    last.kind = "build" => \A o \in last.idem : ~HasAction(last.actions, o)

C4_AtMostOnePerPass == \A o \in Orders : delivered[o] <= 1

C6_IdentityPreserved ==
    [][last'.kind = "dispatch" /\ last'.edit = "ok" =>
          /\ last'.send = "none"
          /\ Len(msgs') = Len(msgs)
          /\ last'.action.message_id # NoMessage
          /\ store'[last'.action.order_number].message_id = last'.action.message_id]_vars

C6_Edited == last.kind = "dispatch" /\ last.edit = "ok" /\ last.success

C9_NotModifiedIsSuccess ==
    last.kind = "dispatch" /\ last.edit = "not_modified" =>
        LET o == last.action.order_number
        IN /\ last.send = "none"
           /\ store[o].message_id = last.action.message_id
           /\ store[o].status = last.action.raw_text
           /\ cache[o] = last.action.raw_text

C11_FailureIsolated == last.kind = "abort" => last.skipped = <<>>

\* C12: when the remote fetch of an account fails, the build emits no action
\* and leaves every snapshot, every cache entry and the channel as they were.
C12_NoUpdateOnFetchFailure ==
    [][last'.kind = "build" /\ ~last'.ok =>
          /\ last'.orders = <<>>
          /\ last'.actions = <<>> /\ wd'.actions = <<>>
          /\ store' = store /\ cache' = cache /\ msgs' = msgs]_vars

C12_FetchFailedOnChange ==
    /\ last.kind = "build" /\ ~last.ok
    /\ \E o \in OrdersOf(last.user.user_id) :
         LET fresh == format_order_status(OrderRecord(o, remoteStatus))
         IN store[o].exists /\ store[o].status # fresh /\ cache[o] # fresh

\* ------------------------------------------------------------------------
\* Properties of order browsing
\* ------------------------------------------------------------------------
Tokened(number_to_token) == {o \in Orders : number_to_token[o] # NoText}

\* C13, as stated: in every session state no two tokens of token_to_number
\* map to the same order number, and token_to_number is the exact inverse of
\* number_to_token.
C13_TokenInjectivity ==
    /\ \A p, q \in ud.orders_token_to_number : p[2] = q[2] => p[1] = q[1]
    /\ ud.orders_token_to_number =
           {<<ud.orders_number_to_token[o], o>> : o \in Tokened(ud.orders_number_to_token)}

NoRepeat(orders) ==
    \A i, j \in 1..Len(orders) :
        orders[i].number = orders[j].number /\ orders[i].number # None => i = j

\* C14, as stated (here for lists that repeat no identifier): when the next
\* generation's order set contains the previous generation's, every order
\* of the previous generation keeps the token it had.
C14_TokenStability ==
    [][/\ NoRepeat(ud.orders_list) /\ NoRepeat(ud'.orders_list)
       /\ Numbers(ud.orders_list) \subseteq Numbers(ud'.orders_list)
       => \A o \in Numbers(ud.orders_list) :
              ud'.orders_number_to_token[o] = ud.orders_number_to_token[o]]_vars

\* C15, as stated: over the whole session a token that was ever paired with
\* one order number is never paired with a different one.
C15_NoRecycling == \A p, q \in given : p[1] = q[1] => p[2] = q[2]

\* the allocation as the contract words it: position by position, the previous
\* token of the order if no earlier position of this generation took it,
\* otherwise the lowest counter value whose hexadecimal form is still free
ExpectedTokens(orders, previous) ==
    LET tok[i \in 0..Len(orders)] ==
            IF i = 0 THEN <<>>
            ELSE LET before == tok[i - 1]
                     used == {before[j] : j \in 1..(i - 1)} \ {NoText}
                     n == orders[i].number
                     lowest == CHOOSE k \in 0..i :
                                   /\ Hex(k) \notin used
                                   /\ \A m \in 0..(k - 1) : Hex(m) \in used
                 IN Append(before,
                           IF n = None THEN NoText
                           ELSE IF previous[n] # NoText /\ previous[n] \notin used
                                THEN previous[n]
                                ELSE Hex(lowest))
    IN tok[Len(orders)]

Positions(orders, o) == {i \in 1..Len(orders) : orders[i].number = o}
Highest(S) == CHOOSE i \in S : \A j \in S : j <= i

Fetching(l) == l.kind = "auth" \/ (l.kind \in {"sync", "filter"} /\ l.fetched)

\* C16: on every sync that fetches, the session's token maps are the
\* allocation the contract describes, computed from the fetched list and the
\* previous number_to_token map alone.
C16_AllocationAlgorithm ==
    [][Fetching(last') =>
          LET orders == ud'.orders_list
              t == ExpectedTokens(orders, ud.orders_number_to_token)
          IN /\ ud'.orders_number_to_token =
                    [o \in Orders |->
                        IF Positions(orders, o) = {} THEN NoText
                        ELSE t[Highest(Positions(orders, o))]]
             /\ ud'.orders_token_to_number =
                    {<<t[i], orders[i].number>> :
                        i \in {j \in 1..Len(orders) : orders[j].number # None}}]_vars

\* a fetched list where the first order holds "1" and the second "0": both
\* kept the tokens of the generation before
C16_PreviousTokensKept ==
    /\ Fetching(last)
    /\ Len(ud.orders_list) = 2
    /\ ud.orders_list[1].number = "o3" /\ ud.orders_list[2].number = "o4"
    /\ ud.orders_number_to_token["o3"] = Hex(1)
    /\ ud.orders_number_to_token["o4"] = Hex(0)

\* the orders a filter keeps, as the contract words them
ActiveAsStated(order) ==
    IF Len(order.positions) = 0 THEN order.paid = FALSE
    ELSE \E i \in 1..Len(order.positions) :
             \A w \in 1..Len(order.positions[i]) :
                 Lower(order.positions[i][w]) \notin DONE_KEYWORDS
UnpaidAsStated(order) == order.paid = FALSE

\* the orders of a list at the positions K, in the order of the list
KeptInOrder(orders, K) ==
    [j \in 1..Cardinality(K) |->
        orders[CHOOSE i \in K : Cardinality({m \in K : m <= i}) = j]]
ActivePositions(orders) == {i \in 1..Len(orders) : ActiveAsStated(orders[i])}
UnpaidPositions(orders) == {i \in 1..Len(orders) : UnpaidAsStated(orders[i])}

\* C17: for the order list of every session state, each filter mode returns,
\* in input order, exactly the orders the contract names for it.
C17_FilterCorrect ==
    /\ filter_orders_for_view(ud.orders_list, "all") = ud.orders_list
    /\ filter_orders_for_view(ud.orders_list, "all")
           = KeptInOrder(ud.orders_list, 1..Len(ud.orders_list))
    /\ filter_orders_for_view(ud.orders_list, "active")
           = KeptInOrder(ud.orders_list, ActivePositions(ud.orders_list))
    /\ filter_orders_for_view(ud.orders_list, "unpaid")
           = KeptInOrder(ud.orders_list, UnpaidPositions(ud.orders_list))

\* the list holds an unpaid order whose items are all closed, then a paid
\* order with an open item; the active filter shows only the second
C17_ActiveButPaid ==
    /\ ud.orders_filter = "active"
    /\ Len(ud.orders_list) = 2
    /\ ~ud.orders_list[1].paid /\ ud.orders_list[2].paid
    /\ ud.orders_filtered_list = <<ud.orders_list[2]>>

MetricsAsStated(orders) ==
    [total |-> Len(orders),
     active |-> Len(filter_orders_for_view(orders, "active")),
     unpaid |-> Len(filter_orders_for_view(orders, "unpaid"))]

\* C18: calculate_orders_metrics counts the list, its active orders and its
\* unpaid orders, and in every session state the metrics the session holds
\* are the metrics of the order list it holds.
C18_MetricsCurrent ==
    /\ calculate_orders_metrics(ud.orders_list) = MetricsAsStated(ud.orders_list)
    /\ ud.has_metrics => ud.orders_metrics = MetricsAsStated(ud.orders_list)

\* a filter button was pressed on a list of two orders, one active and one
\* unpaid: the handler reused the metrics the session held
C18_ReusedOnFilterChange ==
    /\ last.kind = "filter" /\ ~last.fetched
    /\ ud.orders_filter = "unpaid"
    /\ ud.orders_metrics = [total |-> 2, active |-> 1, unpaid |-> 1]

\* orders_by_number of a list: the last record of each order number
ByNumber(orders) ==
    [o \in Orders |->
        IF Positions(orders, o) = {} THEN NoOrder
        ELSE orders[Highest(Positions(orders, o))]]

\* C19: a sync that is forced, or finds no order list, fetches, rebuilds the
\* map by number, recomputes the metrics and allocates tokens from the
\* previous number_to_token map; a sync that is not forced and finds a list
\* does not fetch, writes neither store nor cache and leaves the list and the
\* token maps as they were.
C19_SyncContract ==
    [][last'.kind = "sync" =>
          IF last'.force \/ ~ud.has_list
          THEN /\ last'.fetched
               /\ ud'.has_list
               /\ ud'.orders_map = ByNumber(ud'.orders_list)
               /\ ud'.has_metrics
               /\ ud'.orders_metrics = MetricsAsStated(ud'.orders_list)
               /\ LET t == assign_order_tokens(ud'.orders_list, ud.orders_number_to_token)
                  IN /\ ud'.orders_number_to_token = t.number_to_token
                     /\ ud'.orders_token_to_number = t.token_to_number
          ELSE /\ ~last'.fetched
               /\ store' = store /\ cache' = cache
               /\ ud'.orders_list = ud.orders_list
               /\ ud'.orders_map = ud.orders_map
               /\ ud'.orders_number_to_token = ud.orders_number_to_token
               /\ ud'.orders_token_to_number = ud.orders_token_to_number]_vars

\* a filter chosen by text on a session that holds two orders: no fetch
C19_ReusedList ==
    /\ last.kind = "sync" /\ ~last.force /\ ~last.fetched
    /\ last.mode = "unpaid"
    /\ Len(ud.orders_list) = 2
    /\ Tokened(ud.orders_number_to_token) = {"o3", "o4"}

\* C20, as stated: after every authorization of the chat, a repeated one
\* included, the view is the overview and the filter is "active" if a
\* fetched order is active and "all" otherwise.
C20_DefaultOnSessionCreation ==
    last.kind = "auth" =>
        /\ ud.view = "overview"
        /\ ud.orders_filter =
               IF \E i \in 1..Len(ud.orders_list) : ActiveAsStated(ud.orders_list[i])
               THEN "active" ELSE "all"

\* ------------------------------------------------------------------------
\* Properties of the navigation
\* ------------------------------------------------------------------------
Resolves(u, token) == \E p \in u.orders_token_to_number : p[1] = token
Resolved(u, token) ==
    (CHOOSE p \in u.orders_token_to_number : p[1] = token)[2]

\* C21: a select whose token the session does not resolve fetches exactly
\* once; if the token resolves after that resync the view is the detail of
\* the resolved order, otherwise "not found" is shown and the view is the
\* overview.
C21_OneResyncOnMiss ==
    [][last'.kind = "select" /\ ~Resolves(ud, last'.token) =>
          /\ last'.fetches = 1
          /\ IF Resolves(ud', last'.token)
             THEN /\ last'.shown = "detail"
                  /\ ud'.view = Detail(Resolved(ud', last'.token))
             ELSE /\ last'.shown = "not_found"
                  /\ ud'.view = "overview"]_vars

\* a token the session did not know was selected, the resync brought a list
\* of two orders and the token is still unknown
C21_StillUnresolved ==
    /\ last.kind = "select" /\ last.missed /\ last.fetches = 1
    /\ last.shown = "not_found"
    /\ Len(ud.orders_list) = 2
    /\ ud.view = "overview"

\* C22, as stated: a filter request for the mode that is already active, by
\* button or by text, is answered and nothing else: no channel edit, send or
\* delete, no fetch, no store or cache write, filter and list unchanged.
C22_NoOpFilterSwitch ==
    [][last'.kind \in {"sync", "filter_same"} /\ last'.mode = ud.orders_filter =>
          /\ last'.ops \subseteq {"answer"}
          /\ ~last'.fetched
          /\ store' = store /\ cache' = cache
          /\ ud'.orders_filter = ud.orders_filter
          /\ ud'.orders_list = ud.orders_list]_vars

ExpectedView(orders, mode) ==
    IF mode = "active" THEN KeptInOrder(orders, ActivePositions(orders))
    ELSE IF mode = "unpaid" THEN KeptInOrder(orders, UnpaidPositions(orders))
    ELSE orders

\* C23: a filter request for another mode on a session that holds a list
\* sets the filter, shows the held list under that filter, and neither
\* fetches, nor changes the list or the token maps, nor writes store or cache.
C23_FilterFromCachedList ==
    [][/\ last'.kind \in {"filter", "sync"} /\ last'.mode \in FILTER_MODES
       /\ last'.mode # ud.orders_filter /\ ud.has_list
       => /\ ud'.orders_filter = last'.mode
          /\ ud'.orders_filtered_list = ExpectedView(ud.orders_list, last'.mode)
          /\ "edit" \in last'.ops
          /\ ~last'.fetched
          /\ ud'.orders_list = ud.orders_list
          /\ ud'.orders_number_to_token = ud.orders_number_to_token
          /\ ud'.orders_token_to_number = ud.orders_token_to_number
          /\ store' = store /\ cache' = cache]_vars

\* the button "active" was pressed on a list of an active and a closed order
C23_Narrowed ==
    /\ last.kind = "filter" /\ last.mode = "active"
    /\ Len(ud.orders_list) = 2 /\ Len(ud.orders_filtered_list) = 1
    /\ ud.view = "overview"

\* C24: back, on a session that holds a list, metrics and a valid filter,
\* shows the overview of the held list under the unchanged filter; it does
\* not fetch and writes neither store nor cache; the view is the overview.
C24_BackFromCache ==
    [][/\ last'.kind = "back"
       /\ ud.has_list /\ ud.has_metrics /\ ud.orders_filter \in FILTER_MODES
       => /\ ~last'.fetched
          /\ store' = store /\ cache' = cache
          /\ ud'.orders_filter = ud.orders_filter
          /\ ud'.orders_list = ud.orders_list
          /\ ud'.orders_filtered_list = ExpectedView(ud.orders_list, ud.orders_filter)
          /\ "edit" \in last'.ops
          /\ ud'.view = "overview"]_vars

\* back was pressed on the detail of o3 while the filter was "unpaid"
C24_BackFromDetail ==
    /\ last.kind = "back" /\ last.from = Detail("o3")
    /\ ud.orders_filter = "unpaid"
    /\ ud.view = "overview" /\ card = NoCard

\* C25, as stated (its last sentence): a refresh pressed on the detail card
\* of order X that ends in a detail view ends in the detail of X.
C25_SameOrderAfterRefresh ==
    last.kind = "refresh_order" /\ last.shown = "detail" =>
        ud.view = Detail(last.on)

\* C26, as stated: when the channel rejects the edit of the overview because
\* the text is not modified, the render reports success, raises nothing and
\* no replacement message is sent, whatever the reattachment of the controls
\* answers.
C26_NotModifiedIsSuccess ==
    last.kind = "sync" /\ last.render.edit = "not_modified" =>
        /\ last.render.result = "true"
        /\ ~last.render.replaced

\* ------------------------------------------------------------------------
\* A polling pass whose change detector runs in a worker thread, interleaved
\* with the interactive resync of the same account
\* ------------------------------------------------------------------------
\* the fingerprint of each order of a fetched list
Fingerprints(orders) ==
    [o \in Orders |->
        IF \E i \in 1..Len(orders) : orders[i].number = o
        THEN format_order_status(orders[CHOOSE i \in 1..Len(orders) : orders[i].number = o])
        ELSE NoText]

\* the fingerprint the remote source would report now
Current(o) == format_order_status(OrderRecord(o, remoteStatus))

\* watchdog_job: asyncio.to_thread(build_changes_actions_for_user, u) starts
\* the worker, which checks the user and fetches the orders
WorkerBegin ==
    /\ wd.pc = "run" /\ wd.actions = <<>> /\ wd.users # <<>> /\ worker.pc = "off"
    /\ LET u == Head(wd.users)
       IN \E ok \in BOOLEAN, numbers \in NumberLists(u.user_id) :
            LET orders == IF u.telegram_id \notin Chats \/ u.user_id = None THEN <<>>
                          ELSE get_orders_by_user_id(ok, numbers, remoteStatus)
            IN /\ worker' = [NoWorker EXCEPT !.pc = "loop", !.orders = orders]
               /\ race' = [race EXCEPT !.pass = Fingerprints(orders)]
    /\ last' = [kind |-> "worker", step |-> "fetch", wrote |-> {}, saved |-> FALSE]
    /\ UNCHANGED <<flow, remoteStatus, users, store, cache, msgs, sess, wd, hist, session>>

\* build_changes_actions_for_user: the worker reads the cache entry and the
\* snapshot of the next order
WorkerRead ==
    /\ worker.pc = "loop" /\ worker.orders # <<>>
    /\ LET number == Head(worker.orders).number
       IN worker' = IF number = None
                    THEN [worker EXCEPT !.orders = Tail(worker.orders)]
                    ELSE [worker EXCEPT
                            !.pc = "act",
                            !.read = [cache_text |-> cache[number],
                                      stored_status |-> get_order_status(store, number),
                                      stored_message_id |-> get_order_message(store, number)]]
    /\ last' = [kind |-> "worker", step |-> "read", wrote |-> {}, saved |-> FALSE]
    /\ UNCHANGED <<flow, remoteStatus, users, store, cache, msgs, sess, wd, hist,
                   session, race>>

\* build_changes_actions_for_user: the worker decides on what it read and
\* writes the cache entry and the snapshot from its own thread
WorkerAct ==
    /\ worker.pc = "act"
    /\ LET u == Head(wd.users)
           order == Head(worker.orders)
           number == order.number
           fresh_text == format_order_status(order)
           cache_text == worker.read.cache_text
           stored_status == worker.read.stored_status
           stored_message_id == worker.read.stored_message_id
           unchanged == IsUnchanged(fresh_text, cache_text, stored_status)
           first == ~unchanged /\ IsFirstSighting(stored_status)
           writes == (unchanged /\ cache_text # fresh_text) \/ first
       IN /\ cache' = IF writes THEN [cache EXCEPT ![number] = fresh_text] ELSE cache
          /\ store' = IF first
                      THEN update_order_status(store, number, u.user_id, fresh_text,
                                               stored_message_id)
                      ELSE store
          /\ worker' = [worker EXCEPT
                          !.pc = "loop",
                          !.orders = Tail(worker.orders),
                          !.read = NoRead,
                          !.dirty = worker.dirty \/ writes,
                          !.actions = IF unchanged \/ first THEN worker.actions
                                      ELSE Append(worker.actions,
                                                  NotificationAction(u.telegram_id, u.user_id,
                                                                     number, stored_message_id,
                                                                     fresh_text))]
          /\ last' = [kind |-> "worker", step |-> "act",
                      wrote |-> IF writes THEN {number} ELSE {}, saved |-> FALSE]
    /\ UNCHANGED <<flow, remoteStatus, users, msgs, sess, wd, hist, session, race>>

\* build_changes_actions_for_user: after the loop the worker rewrites the
\* cache file when it changed an entry, and returns its actions
WorkerReturn ==
    /\ worker.pc = "loop" /\ worker.orders = <<>>
    /\ worker' = [worker EXCEPT !.pc = "done"]
    /\ last' = [kind |-> "worker", step |-> "return", wrote |-> {}, saved |-> worker.dirty]
    /\ UNCHANGED <<flow, remoteStatus, users, store, cache, msgs, sess, wd, hist,
                   session, race>>

\* watchdog_job: the await of the worker returns on the event loop
Join ==
    /\ wd.pc = "run" /\ worker.pc = "done"
    /\ wd' = [wd EXCEPT !.users = Tail(wd.users), !.actions = worker.actions]
    /\ worker' = NoWorker
    /\ last' = NoStep
    /\ UNCHANGED <<flow, remoteStatus, users, store, cache, msgs, sess, hist, session, race>>

\* bookkeeping: a pass or a resync that starts forgets what the one before it
\* fetched and notes whether the other one is running
PassBegins ==
    race' = IF wd'.pc = "run"
            THEN [race EXCEPT !.pass = NoFetch, !.overlap = flow.pc # "idle"]
            ELSE race
SyncBegins == race' = [race EXCEPT !.sync = NoFetch, !.overlap = wd.pc # "idle"]
SyncFetched == race' = [race EXCEPT !.sync = Fingerprints(flow'.orders)]

NextRace ==
    \/ PassStart /\ PassBegins /\ UNCHANGED <<hist, session, worker>>
    \/ WorkerBegin
    \/ WorkerRead
    \/ WorkerAct
    \/ WorkerReturn
    \/ Join
    \/ Dispatch /\ UNCHANGED <<hist, session, threads>>
    \/ PassEnd /\ UNCHANGED <<hist, session, threads>>
    \/ \E c \in FlowChats, a \in FlowAccounts :
         Auth(c, a) /\ SyncBegins /\ UNCHANGED <<hist, session, worker>>
    \/ \E c \in FlowChats : Refresh(c) /\ SyncBegins /\ UNCHANGED <<hist, session, worker>>
    \/ SyncFetch /\ SyncFetched /\ UNCHANGED <<hist, session, worker>>
    \/ SyncCache /\ UNCHANGED <<hist, session, threads>>
    \/ SyncPersist /\ UNCHANGED <<hist, session, threads>>
    \/ \E o \in Orders : RemoteChange(o) /\ UNCHANGED <<hist, session, threads>>

SpecRace == Init /\ [][NextRace]_vars

\* C27, as stated: every mutation of the fingerprint cache is made on the
\* dispatch path after the worker has been joined, so no cache entry changes
\* while a worker thread of build_changes_actions_for_user is running.
C27_SingleWriterCache ==
    [][\A o \in Orders : cache'[o] # cache[o] => worker.pc = "off"]_vars

\* the pass and the resync have both completed
Quiet == wd.pc = "idle" /\ flow.pc = "idle" /\ worker.pc = "off"

\* the pass and the resync overlapped and both fetched the order
Raced(o) == race.overlap /\ race.pass[o] # NoText /\ race.sync[o] # NoText

\* C28, as stated, in the case where the resync fetched the fingerprint the
\* remote source still reports: once a forced resync and a concurrent pass
\* that both fetched an order have completed, the order's snapshot and its
\* cache entry both hold the order's current remote fingerprint.
C28_RaceConvergence ==
    \A o \in Orders :
        Quiet /\ Raced(o) /\ race.sync[o] = Current(o) =>
            /\ get_order_status(store, o) = Current(o)
            /\ cache[o] = Current(o)

\* the row an upsert leaves for the order
Upserted(o, user_id, status, message_id) ==
    store'[o] = [exists |-> TRUE, user_id |-> user_id, status |-> status,
                 message_id |-> message_id]

\* C29: persist_orders_snapshot upserts every fetched order without a message
\* id: the row gets the fetched fingerprint and the session's account and
\* keeps the message id it had (none when there was no row), and no other row
\* changes. A successful dispatch upserts with the message id it edited or
\* sent, and the row holds that id.
C29_UpsertKeepsMessageRef ==
    [][/\ flow.pc = "persist" /\ flow'.pc = "idle" =>
            \A o \in Orders :
                IF o \in Numbers(flow.orders)
                THEN Upserted(o, sess[flow.chat], Fingerprints(flow.orders)[o],
                              store[o].message_id)
                ELSE store'[o] = store[o]
       /\ last'.kind = "dispatch" /\ last'.success =>
            /\ last'.new_message_id # NoMessage
            /\ Upserted(last'.action.order_number, last'.action.user_id,
                        last'.action.raw_text, last'.new_message_id)]_vars

\* a resync has stored the current fingerprint of o1 and the row still refers
\* to the notification that shows the fingerprint before it
C29_RefKeptAcrossResync ==
    /\ flow.pc = "idle"
    /\ store["o1"].status = Current("o1")
    /\ store["o1"].message_id \in 1..Len(msgs)
    /\ msgs[store["o1"].message_id].alive
    /\ msgs[store["o1"].message_id].text # NotificationText(store["o1"].status)

\* ------------------------------------------------------------------------
\* Re-authentication while the polling passes run
\* ------------------------------------------------------------------------
\* bookkeeping: the message ids a re-authentication cleared from the
\* account's snapshots
Reauthenticated(a) ==
    race' = [race EXCEPT !.cleared =
                @ \cup ({store[o].message_id : o \in get_user_order_snapshots(store, a)}
                        \ {NoMessage})]

NextReauth ==
    \/ PassStart /\ UNCHANGED <<hist, session, threads>>
    \/ Build /\ UNCHANGED <<hist, session, threads>>
    \/ Dispatch /\ UNCHANGED <<hist, session, threads>>
    \/ PassEnd /\ UNCHANGED <<hist, session, threads>>
    \/ \E c \in FlowChats, a \in FlowAccounts :
         Auth(c, a) /\ Reauthenticated(a) /\ UNCHANGED <<hist, session, worker>>
    \/ SyncFetch /\ UNCHANGED <<hist, session, threads>>
    \/ SyncCache /\ UNCHANGED <<hist, session, threads>>
    \/ SyncPersist /\ UNCHANGED <<hist, session, threads>>
    \/ \E o \in Orders : RemoteChange(o) /\ UNCHANGED <<hist, session, threads>>

SpecReauth == Init /\ [][NextReauth]_vars

\* C30, as stated: a re-authentication of an account leaves every snapshot of
\* the account without a message id and with the fingerprint it had, whichever
\* deletions succeeded; and no change a pass detects afterwards is notified by
\* an action that carries a message id the re-authentication cleared, so the
\* change is sent as a new message and not edited into the old one.
C30_ReauthClearsMessageRefs ==
    [][/\ flow.pc = "idle" /\ flow'.pc = "fetch" /\ flow'.auth =>
            \A o \in get_user_order_snapshots(store, sess'[flow'.chat]) :
                /\ store'[o].message_id = NoMessage
                /\ store'[o].status = store[o].status
       /\ last'.kind = "build" =>
            \A i \in 1..Len(last'.actions) :
                last'.actions[i].message_id \notin race.cleared]_vars

\* ------------------------------------------------------------------------
\* A polling pass in which snapshot writes may fail
\* ------------------------------------------------------------------------
\* what update_order_status can answer: the row is written, or sqlite raises
DbResults == {"ok", "error"}

\* the store after the detector ran when the baseline writes of the orders in
\* failing raised: the except at 1459 logs the error and the row stays as it was
StoreAfterBuild(st, built, failing) ==
    [o \in Orders |-> IF o \in failing THEN st[o] ELSE built[o]]

CacheAfterDispatch_always(ca, o, raw_text, written) == [ca EXCEPT ![o] = raw_text]

\* watchdog_job: _status_cache[order_number] = raw_text is reached only when
\* the awaited update_order_status returned
CacheAfterDispatch(ca, o, raw_text, written) ==
    IF written THEN [ca EXCEPT ![o] = raw_text] ELSE ca

\* build_changes_actions_for_user in its worker, the baseline write of each
\* first-sighted order in failing raising
BuildDb ==
    /\ wd.pc = "run" /\ wd.actions = <<>> /\ wd.users # <<>>
    /\ LET u == Head(wd.users)
       IN \E ok \in BOOLEAN, numbers \in NumberLists(u.user_id) :
            \E r \in {build_changes_actions_for_user(
                          u, get_orders_by_user_id(ok, numbers, remoteStatus),
                          store, cache)} :
              \E failing \in SUBSET {o \in Orders : r.store[o] # store[o]} :
                /\ store' = StoreAfterBuild(store, r.store, failing)
                /\ cache' = r.cache
                /\ wd' = [wd EXCEPT !.users = Tail(wd.users), !.actions = r.actions]
                /\ last' = [kind |-> "build", user |-> u,
                            orders |-> get_orders_by_user_id(ok, numbers, remoteStatus),
                            actions |-> r.actions, ok |-> ok, failing |-> failing,
                            left |-> Len(wd.users) - 1]
    /\ UNCHANGED <<flow, remoteStatus, users, msgs, sess>>

\* watchdog_job: the body of the loop over the actions, the snapshot write
\* answering db
DispatchDb ==
    /\ wd.pc = "run" /\ wd.actions # <<>>
    /\ LET action == Head(wd.actions)
           o == action.order_number
           message_id == action.message_id
       IN \E e \in (IF message_id # NoMessage
                    THEN EditOutcomes(msgs, action.chat_id, message_id, action.text)
                    ELSE {"none"}) :
            LET edited == IF e = "ok"
                          THEN [msgs EXCEPT ![message_id].text = action.text]
                          ELSE msgs
                raised == e \notin {"none", "ok"} /\ ~IsBadRequest(e)
                new1 == AfterEdit(message_id, e)
            IN \E s \in (IF ~raised /\ NeedsSend(new1)
                         THEN SendOutcomes(edited) ELSE {"none"}) :
                 LET sent == IF s = "ok"
                             THEN Append(edited, [chat |-> action.chat_id,
                                                  text |-> action.text, alive |-> TRUE])
                             ELSE edited
                     new2 == IF s = "ok" THEN Len(sent) ELSE new1
                     shown == ~raised /\ s # "error"
                 IN \E db \in (IF shown THEN DbResults ELSE {"none"}) :
                      /\ store' = IF db = "ok"
                                  THEN update_order_status(store, o, action.user_id,
                                                           action.raw_text, new2)
                                  ELSE store
                      /\ cache' = CacheAfterDispatch(cache, o, action.raw_text, db = "ok")
                      /\ wd' = [wd EXCEPT !.actions = NextActions(wd.actions, db = "ok")]
                      /\ msgs' = Channel(sent, store', wd'.actions)
                      /\ last' = [kind |-> "dispatch", action |-> action, edit |-> e,
                                  send |-> s, new_message_id |-> new2,
                                  success |-> db = "ok", shown |-> shown, db |-> db,
                                  left |-> Len(wd.actions) - 1]
    /\ UNCHANGED <<flow, remoteStatus, users, sess>>

NextPersist ==
    \/ PassStart /\ UNCHANGED <<hist, session, threads>>
    \/ BuildDb /\ UNCHANGED <<hist, session, threads>>
    \/ DispatchDb /\ UNCHANGED <<hist, session, threads>>
    \/ PassEnd /\ UNCHANGED <<hist, session, threads>>
    \/ \E o \in Orders : RemoteChange(o) /\ UNCHANGED <<hist, session, threads>>

SpecPersist == InitPass /\ [][NextPersist]_vars

\* C31: a snapshot write that fails while an action is dispatched leaves the
\* snapshot and the cache as they were, so the change still counts as
\* unhandled in the next pass, and the pass goes on with the remaining actions
\* and accounts; a baseline write that fails in the detector does not change
\* the actions the detector returns nor stop the pass, and the cache entry is
\* still set.
C31_PersistenceErrorsAbsorbed ==
    [][/\ last'.kind = "dispatch" /\ last'.db = "error" =>
            /\ store' = store /\ cache' = cache
            /\ wd'.pc = "run" /\ wd'.users = wd.users
            /\ wd'.actions = Tail(wd.actions)
            /\ IsUnchanged(last'.action.raw_text, cache'[last'.action.order_number],
                           get_order_status(store', last'.action.order_number))
                 => IsUnchanged(last'.action.raw_text, cache[last'.action.order_number],
                                get_order_status(store, last'.action.order_number))
       /\ last'.kind = "build" /\ last'.failing # {} =>
            /\ wd'.pc = "run" /\ wd'.users = Tail(wd.users)
            /\ wd'.actions = build_changes_actions_for_user(last'.user, last'.orders,
                                                            store, cache).actions
            /\ \A o \in last'.failing :
                 /\ store'[o] = store[o]
                 /\ cache'[o] = Fingerprints(last'.orders)[o]]_vars

\* a notification was sent, its snapshot write failed, the change is still
\* unhandled and another account is still to be visited in this pass
C31_WriteFailedAfterSend ==
    /\ last.kind = "dispatch" /\ last.db = "error" /\ last.send = "ok"
    /\ wd.pc = "run" /\ wd.users # <<>>
    /\ ~IsUnchanged(last.action.raw_text, cache[last.action.order_number],
                    get_order_status(store, last.action.order_number))

\* ------------------------------------------------------------------------
\* Requests of a chat after a restart of the process
\* ------------------------------------------------------------------------
\* what the chat can send: a button of an order message or a text command
Requests == {"callback", "text"}

\* a request of a chat whose user_data has no abcp_user_id.
\* handle_orders_callback: sync_orders_context returns None before it fetches
\* and the handler returns. handle_text_message: the chat is asked for its
\* phone number. Neither fetches the orders nor shows the overview.
Unbound(request) ==
    /\ sess[SessionChat] = None
    /\ last' = [kind |-> "unbound", request |-> request, fetched |-> FALSE,
                ops |-> IF request = "text" THEN {"delete", "send"} ELSE {},
                registered |-> users[SessionChat] # None]
    /\ UNCHANGED <<remoteStatus, users, store, cache, msgs, sess, flow, wd, hist,
                   threads, session>>

NextRestart ==
    \/ Authorize(NavLists) /\ Shown /\ UNCHANGED ever
    \/ RefreshOrders(NavLists, {Rendered}) /\ Shown /\ UNCHANGED ever
    \/ \E token \in Tokens : Select(NavLists, token)
    \/ Back(NavLists)
    \/ Restart
    \/ \E request \in Requests : Unbound(request)

SpecRestart == Init /\ [][NextRestart]_vars

\* C32, as stated: the first request of a chat that was bound before the
\* restart fetches the orders once (a forced resync) and shows the overview.
C32_ResyncAfterRestart ==
    [][last.kind = "restart" /\ last'.kind = "unbound" /\ last'.registered =>
            /\ last'.fetched
            /\ "edit" \in last'.ops \/ "send" \in last'.ops]_vars

\* ------------------------------------------------------------------------
\* A polling pass over one registered account that has two orders
\* ------------------------------------------------------------------------
OrderAccount == "a3"

InitOrder ==
    /\ remoteStatus = [o \in Orders |-> "s1"]
    /\ users = [c \in Chats |-> IF c = 1 THEN OrderAccount ELSE None]
    /\ \E had \in SUBSET OrdersOf(OrderAccount) :
         /\ store = [o \in Orders |->
                        IF o \in had
                        THEN [exists |-> TRUE, user_id |-> Owner(o),
                              status |-> format_order_status(OrderRecord(o, remoteStatus)),
                              message_id |-> NoMessage]
                        ELSE NoRow]
         /\ cache = [o \in Orders |->
                        IF o \in had THEN format_order_status(OrderRecord(o, remoteStatus))
                        ELSE NoText]
    /\ msgs = <<>>
    /\ sess = [c \in Chats |-> None]
    /\ flow = NoFlow
    /\ wd = [pc |-> "idle", users |-> <<>>, actions |-> <<>>]
    /\ delivered = [o \in Orders |-> 0]
    /\ failed = [o \in Orders |-> "no"]
    /\ idem = [o \in Orders |-> "no"]
    /\ ud = NoSession
    /\ given = {}
    /\ seen = 0
    /\ card = NoCard
    /\ worker = NoWorker
    /\ race = NoRace
    /\ last = NoStep

NextOrder ==
    \/ PassStart /\ UNCHANGED <<hist, session, threads>>
    \/ Build /\ UNCHANGED <<hist, session, threads>>
    \/ Dispatch /\ UNCHANGED <<hist, session, threads>>
    \/ PassEnd /\ UNCHANGED <<hist, session, threads>>
    \/ \E o \in Orders : RemoteChange(o) /\ UNCHANGED <<hist, session, threads>>

SpecOrder == InitOrder /\ [][NextOrder]_vars

\* the record at a position of the fetched list is a change to notify, judged
\* on the snapshot and the cache the pass found
Notified(order, st, ca) ==
    /\ order.number # None
    /\ ~IsUnchanged(format_order_status(order), ca[order.number],
                    get_order_status(st, order.number))
    /\ ~IsFirstSighting(get_order_status(st, order.number))

\* C33: the actions a pass builds for an account are the notifications of the
\* changed records of the fetched list, in the order of the list, and the
\* pass dispatches them from the first to the last.
C33_SourceOrder ==
    [][/\ last'.kind = "build" =>
            LET changed == SelectSeq(last'.orders,
                                     LAMBDA order : Notified(order, store, cache))
            IN /\ Len(wd'.actions) = Len(changed)
               /\ \A i \in 1..Len(changed) :
                    /\ wd'.actions[i].order_number = changed[i].number
                    /\ wd'.actions[i].raw_text = format_order_status(changed[i])
       /\ last'.kind = "dispatch" =>
            /\ last'.action = Head(wd.actions)
            /\ wd'.actions = Tail(wd.actions)]_vars

\* the pass built the notification of o4 before the one of o3, as the list
\* had them, dispatched the first and holds the second
C33_SecondStillQueued ==
    /\ last.kind = "dispatch" /\ last.action.order_number = "o4"
    /\ Len(wd.actions) = 1 /\ wd.actions[1].order_number = "o3"

\* ------------------------------------------------------------------------
\* watchdog.py: the standalone polling loop
\* ------------------------------------------------------------------------
\* watchdog.py has its own renderer of an order; like the bot's it is a
\* function of the order's number and the statuses of its positions
watchdog_format_order_status(order) == <<"Zakaz N", order.number, order.status>>

\* run_watchdog: orders = get_orders(user_id) for the next user
StandaloneFetch ==
    /\ wd.pc = "run" /\ wd.users # <<>> /\ worker.pc = "off"
    /\ LET u == Head(wd.users)
       IN \E ok \in BOOLEAN, numbers \in NumberLists(u.user_id) :
            worker' = [NoWorker EXCEPT
                         !.pc = "loop",
                         !.orders = get_orders_by_user_id(ok, numbers, remoteStatus)]
    /\ last' = NoStep
    /\ UNCHANGED <<flow, remoteStatus, users, store, cache, msgs, sess, wd, hist,
                   session, race>>

\* run_watchdog: the body of the loop over the orders. The text is compared
\* with the cache entry only; send_message_async swallows a failed send and
\* the cache entry is set after it either way.
StandaloneOrder ==
    /\ worker.pc = "loop" /\ worker.orders # <<>>
    /\ LET order == Head(worker.orders)
           number == order.number
           status_text == watchdog_format_order_status(order)
           prev_text == cache[number]
       IN \E s \in (IF status_text # prev_text THEN SendOutcomes(msgs) ELSE {"none"}) :
            /\ msgs' = IF s = "ok"
                       THEN Append(msgs, [chat |-> Head(wd.users).telegram_id,
                                          text |-> NotificationText(status_text),
                                          alive |-> TRUE])
                       ELSE msgs
            /\ cache' = IF s # "none" THEN [cache EXCEPT ![number] = status_text]
                        ELSE cache
            /\ last' = [kind |-> "standalone", number |-> number,
                        first |-> prev_text = NoText, send |-> s]
    /\ worker' = [worker EXCEPT !.orders = Tail(worker.orders)]
    /\ UNCHANGED <<flow, remoteStatus, users, store, sess, wd, hist, session, race>>

\* run_watchdog: the orders of the user are done, on to the next user
StandaloneNext ==
    /\ worker.pc = "loop" /\ worker.orders = <<>>
    /\ worker' = NoWorker
    /\ wd' = [wd EXCEPT !.users = Tail(wd.users)]
    /\ last' = NoStep
    /\ UNCHANGED <<flow, remoteStatus, users, store, cache, msgs, sess, hist,
                   session, race>>

NextStandalone ==
    \/ PassStart /\ UNCHANGED <<hist, session, threads>>
    \/ StandaloneFetch
    \/ StandaloneOrder
    \/ StandaloneNext
    \/ PassEnd /\ UNCHANGED <<hist, session, threads>>
    \/ \E o \in Orders : RemoteChange(o) /\ UNCHANGED <<hist, session, threads>>

SpecStandalone == InitPass /\ [][NextStandalone]_vars

\* C34, as stated: run_watchdog sends nothing for an order that has no entry
\* in its cache.
C34_StandaloneFirstSighting ==
    [][last'.kind = "standalone" /\ last'.first => last'.send = "none"]_vars

\* ------------------------------------------------------------------------
\* A forced session sync whose fetch fails
\* ------------------------------------------------------------------------
\* handle_orders_callback, orders:refresh, when the request to the remote
\* source fails: get_orders_by_user_id catches the error and returns [], and
\* sync_orders_context goes on with that list
RefreshFails ==
    /\ sess[SessionChat] # None
    /\ \E r \in {sync_orders_context(ud, sess[SessionChat], TRUE, "none",
                                     get_orders_by_user_id(FALSE, <<>>, remoteStatus),
                                     cache, store)} :
         /\ ud' = [r.ud EXCEPT !.view = "overview"]
         /\ cache' = r.cache
         /\ store' = r.store
         /\ last' = [kind |-> "sync_failed", force |-> TRUE, fetched |-> r.fetched,
                     ops |-> CallbackOps]
    /\ UNCHANGED <<remoteStatus, users, msgs, sess, flow, wd, hist, threads>>

NextFailure ==
    \/ Authorize(ViewLists) /\ Shown /\ UNCHANGED ever
    \/ RefreshOrders(ViewLists, {Rendered}) /\ Shown /\ UNCHANGED ever
    \/ \E mode \in FILTER_MODES : FilterButton(ViewLists, mode) /\ Shown /\ UNCHANGED ever
    \/ RefreshFails /\ Shown /\ UNCHANGED ever

SpecFailure == Init /\ [][NextFailure]_vars

\* C35, as stated: a forced sync whose fetch fails leaves the session's order
\* list, its orders by number, its token maps and its metrics as they were.
C35_FetchFailureKeepsSession ==
    [][last'.kind = "sync_failed" =>
            /\ ud'.orders_list = ud.orders_list
            /\ ud'.orders_map = ud.orders_map
            /\ ud'.orders_number_to_token = ud.orders_number_to_token
            /\ ud'.orders_token_to_number = ud.orders_token_to_number
            /\ ud'.orders_metrics = ud.orders_metrics]_vars

\* ------------------------------------------------------------------------
\* Polling passes around a forced resync, with what the resync fetched
\* ------------------------------------------------------------------------
\* bookkeeping: a fingerprint the resync fetched is forgotten when the remote
\* source reports another status for the order
Outdated(o) == race' = [race EXCEPT !.sync[o] = NoText]

\* the last resync has completed, it fetched the order and the remote source
\* has not changed the order since
Absorbed(o) == flow.pc = "idle" /\ race.sync[o] # NoText

NextAbsorb ==
    \/ PassStart /\ UNCHANGED <<hist, session, threads>>
    \/ Build /\ UNCHANGED <<hist, session, threads>>
    \/ Dispatch /\ UNCHANGED <<hist, session, threads>>
    \/ PassEnd /\ UNCHANGED <<hist, session, threads>>
    \/ \E c \in FlowChats, a \in FlowAccounts :
         Auth(c, a) /\ SyncBegins /\ UNCHANGED <<hist, session, worker>>
    \/ \E c \in FlowChats : Refresh(c) /\ SyncBegins /\ UNCHANGED <<hist, session, worker>>
    \/ SyncFetch /\ SyncFetched /\ UNCHANGED <<hist, session, worker>>
    \/ SyncCache /\ UNCHANGED <<hist, session, threads>>
    \/ SyncPersist /\ UNCHANGED <<hist, session, threads>>
    \/ \E o \in Orders : RemoteChange(o) /\ Outdated(o) /\ UNCHANGED <<hist, session, worker>>

SpecAbsorb == Init /\ [][NextAbsorb]_vars

\* C36, as stated: when a forced resync completes, the cache entry of every
\* order it fetched is the fetched fingerprint and the snapshot holds that
\* fingerprint with the message id it had; and while the remote source does
\* not change the order again, no pass builds a notification for it.
C36_ResyncAbsorbsChanges ==
    [][/\ flow.pc = "persist" /\ flow'.pc = "idle" =>
            \A o \in Orders :
                race.sync[o] # NoText =>
                    /\ cache'[o] = race.sync[o]
                    /\ store'[o].status = race.sync[o]
                    /\ store'[o].message_id = store[o].message_id
       /\ last'.kind = "build" =>
            \A i \in 1..Len(last'.actions) :
                ~Absorbed(last'.actions[i].order_number)]_vars

\* ------------------------------------------------------------------------
\* The tokens on offer and the orders the session holds
\* ------------------------------------------------------------------------
\* lists with records that carry no number, forced syncs that succeed and
\* that fail, selections, restarts
NextResolve ==
    \/ Authorize(TokenLists) /\ Shown /\ UNCHANGED ever
    \/ RefreshOrders(TokenLists, {Rendered}) /\ Shown /\ UNCHANGED ever
    \/ RefreshFails /\ Shown /\ UNCHANGED ever
    \/ \E token \in Tokens : Select(TokenLists, token)
    \/ Restart

SpecResolve == Init /\ [][NextResolve]_vars

\* C37: every order number in the range of token_to_number is a key of
\* orders_by_number, and a select never fetches a second time: when its token
\* resolves, before or after the first resync, the order record is there.
C37_TokensResolve ==
    /\ \A p \in ud.orders_token_to_number : ud.orders_map[p[2]] # NoOrder
    /\ last.kind = "select" => last.fetches <= 1

\* a select whose token resolved only after its resync opened the detail
C37_ResolvedAfterResync ==
    /\ last.kind = "select"
    /\ last.missed
    /\ last.shown = "detail"
    /\ ud.orders_token_to_number # {}

\* ------------------------------------------------------------------------
\* The statements of a resync's snapshot write, next to the dispatcher
\* ------------------------------------------------------------------------
\* update_order_status runs in a worker thread on a connection of its own:
\* the SELECT of the stored message id and the INSERT OR REPLACE are two
\* statements, and the dispatcher's update_order_status, in another thread,
\* may commit between them. flow.rest is what persist_orders_snapshot has
\* still to write, flow.read the message id its SELECT returned.
Rest == IF flow.pc = "persist" THEN flow.orders ELSE flow.rest

InsertOrReplace(st, order_number, user_id, status, message_id) ==
    [st EXCEPT ![order_number] =
        [exists |-> TRUE, user_id |-> user_id, status |-> status,
         message_id |-> message_id]]

\* update_order_status(number, user_id, text): message_id is None, SELECT
PersistSelect ==
    /\ flow.pc \in {"persist", "select"} /\ Rest # <<>>
    /\ flow' = [pc |-> "insert", chat |-> flow.chat, orders |-> flow.orders,
                auth |-> flow.auth, rest |-> Rest,
                read |-> get_order_message(store, Head(Rest).number)]
    /\ last' = NoStep
    /\ UNCHANGED <<remoteStatus, users, store, cache, msgs, sess, wd>>

\* update_order_status(number, user_id, text): INSERT OR REPLACE, commit
PersistInsert ==
    /\ flow.pc = "insert"
    /\ store' = InsertOrReplace(store, Head(flow.rest).number, sess[flow.chat],
                                format_order_status(Head(flow.rest)), flow.read)
    /\ flow' = [flow EXCEPT !.pc = "select", !.rest = Tail(flow.rest),
                            !.read = NoMessage]
    /\ last' = [kind |-> "insert", number |-> Head(flow.rest).number,
                read |-> flow.read]
    /\ UNCHANGED <<remoteStatus, users, cache, msgs, sess, wd>>

\* persist_orders_snapshot returns; complete_authorization_flow then
\* registers the user (save_user)
PersistDone ==
    /\ flow.pc \in {"persist", "select"} /\ Rest = <<>>
    /\ users' = IF flow.auth THEN [users EXCEPT ![flow.chat] = sess[flow.chat]] ELSE users
    /\ flow' = NoFlow
    /\ last' = NoStep
    /\ UNCHANGED <<remoteStatus, store, cache, msgs, sess, wd>>

NextUpsert ==
    \/ PassStart /\ UNCHANGED <<hist, session, threads>>
    \/ Build /\ UNCHANGED <<hist, session, threads>>
    \/ Dispatch /\ UNCHANGED <<hist, session, threads>>
    \/ PassEnd /\ UNCHANGED <<hist, session, threads>>
    \/ \E c \in FlowChats, a \in FlowAccounts :
         Auth(c, a) /\ UNCHANGED <<hist, session, threads>>
    \/ \E c \in FlowChats : Refresh(c) /\ UNCHANGED <<hist, session, threads>>
    \/ SyncFetch /\ UNCHANGED <<hist, session, threads>>
    \/ SyncCache /\ UNCHANGED <<hist, session, threads>>
    \/ PersistSelect /\ UNCHANGED <<hist, session, threads>>
    \/ PersistInsert /\ UNCHANGED <<hist, session, threads>>
    \/ PersistDone /\ UNCHANGED <<hist, session, threads>>
    \/ \E o \in Orders : RemoteChange(o) /\ UNCHANGED <<hist, session, threads>>

SpecUpsert == Init /\ [][NextUpsert]_vars

\* C38, as stated: when the dispatcher's snapshot write, with a new message
\* id, falls between the SELECT and the INSERT OR REPLACE of the resync's
\* write for the same order, the message id the dispatcher stored is still
\* in the store after the resync's write.
C38_NoLostMessageRef ==
    [][last'.kind = "insert" =>
            store'[last'.number].message_id = store[last'.number].message_id]_vars

\* ------------------------------------------------------------------------
\* A change after the first sighting
\* ------------------------------------------------------------------------
\* the detector has handled the order before: it has a snapshot, or a cache
\* entry (the detector sets one at the first sighting even when the snapshot
\* write of the baseline fails)
Sighted(o) == store[o].exists \/ cache[o] # NoText

\* the fingerprint the remote source reports is none of those last handled
Changed(order) ==
    /\ format_order_status(order) # cache[order.number]
    /\ format_order_status(order) # get_order_status(store, order.number)

\* C39, as stated: with no forced resync, the pass that fetches an order it
\* has sighted before with a new fingerprint builds an action for it, and so
\* makes a delivery attempt, also when the snapshot write of the baseline had
\* failed.
C39_NoMissedChange ==
    [][last'.kind = "build" /\ last'.ok =>
            \A i \in 1..Len(last'.orders) :
                Sighted(last'.orders[i].number) /\ Changed(last'.orders[i]) =>
                    \E j \in 1..Len(last'.actions) :
                        last'.actions[j].order_number = last'.orders[i].number]_vars

\* ------------------------------------------------------------------------
\* Tokens and the lengths of the order lists
\* ------------------------------------------------------------------------
Largest(a, b) == IF a >= b THEN a ELSE b

\* the session holds another order list
Seen == seen' = Largest(seen, Len(ud'.orders_list))

\* the token is format(k, "x") for some k < n
HexBelow(token, n) == \E k \in 0..(n - 1) : token = Hex(k)

NextLengths ==
    \/ Authorize(TokenLists) /\ Seen /\ UNCHANGED <<given, card>>
    \/ ShowOrders(TokenLists, {Rendered}) /\ Seen /\ UNCHANGED <<given, card>>
    \/ RefreshOrders(TokenLists, {Rendered}) /\ Seen /\ UNCHANGED <<given, card>>
    \/ RefreshFails /\ Seen /\ UNCHANGED <<given, card>>

SpecLengths == Init /\ [][NextLengths]_vars

\* the tokens next_token returns in a call of assign_order_tokens
RECURSIVE AllocatedLoop(_, _, _, _)
AllocatedLoop(orders, existing_map, used_tokens, counter) ==
    IF orders = <<>> THEN {}
    ELSE LET number == Head(orders).number
         IN IF number = None
            THEN AllocatedLoop(Tail(orders), existing_map, used_tokens, counter)
            ELSE LET token == existing_map[number]
                     reuse == token # NoText /\ token \notin used_tokens
                     fresh == next_token(counter, used_tokens)
                 IN IF reuse
                    THEN AllocatedLoop(Tail(orders), existing_map,
                                       used_tokens \cup {token}, counter)
                    ELSE {fresh.token}
                         \cup AllocatedLoop(Tail(orders), existing_map,
                                            used_tokens \cup {fresh.token}, fresh.counter)

\* the step called assign_order_tokens: it fetched, or the session held a
\* list and no token
Assigned ==
    \/ last'.kind # "sync"
    \/ last'.fetched
    \/ ud.orders_number_to_token = NoTokens /\ ud'.orders_list # <<>>

\* C40: every token of the session is the hexadecimal form of an integer
\* smaller than the largest order-list length the session has held so far,
\* and every token a step newly allocates is in the token map and is smaller
\* than the length of the list the step stored.
C40_TokensBelowLength ==
    [][/\ \A p \in ud'.orders_token_to_number : HexBelow(p[1], seen')
       /\ Assigned =>
            \A t \in AllocatedLoop(ud'.orders_list, ud.orders_number_to_token, {}, 0) :
                /\ HexBelow(t, Len(ud'.orders_list))
                /\ \E p \in ud'.orders_token_to_number : p[1] = t]_vars

\* an order kept the token "1" of a list of two in a list of one
C40_KeptTokenOfLongerList ==
    /\ Len(ud.orders_list) = 1
    /\ seen = 2
    /\ <<Hex(1), ud.orders_list[1].number>> \in ud.orders_token_to_number

====
